---- MODULE Spec2Model ----
(***************************************************************************)
(* Model of the Fabric (common connection profile) adapter of Caliper:     *)
(* the submission/confirmation engine _submitSingleTransaction, its        *)
(* commit-event registrations (_createEventRegistrationPromise) and the    *)
(* query path _submitSingleQuery.                                          *)
(*                                                                         *)
(* One call is modelled from its entry to its return and beyond: the       *)
(* callbacks a call leaves registered (commit events, event-hub errors,    *)
(* timers) stay enabled after the call has returned, as they do in the     *)
(* event loop.  An action is one turn of the event loop: a callback        *)
(* together with every promise continuation it makes runnable.             *)
(*                                                                         *)
(* Time is the value of Date.now() in milliseconds; it advances in steps   *)
(* of TickMs.  A timer fires no earlier than its deadline.                 *)
(*                                                                         *)
(* proposalResponseObject holds the proposal responses in the state that  *)
(* follows their arrival, so that a property can relate the outcome of the *)
(* call to what the endorsers answered; the next step clears it.           *)
(*                                                                         *)
(* Peers and orderers are named by their index (peer 1, peer 2, ...): the  *)
(* annotation `commit_error_${peer}` is the key <<"commit_error", peer>>.  *)
(*                                                                         *)
(* A second specification, NetSpec, models the network configuration the   *)
(* adapter works on: FabricNetwork (its constructor runs                   *)
(* _validateNetworkConfiguration), its accessors, and the target selection *)
(* of the adapter (_prepareCaches, _assembleRandomTargetPeers).  An        *)
(* optional property of a configuration object is Undefined when it is not *)
(* given and <<value>> when it is.  Properties the validation only checks  *)
(* for presence (credentials, certificates, channel artifacts) are taken   *)
(* as given.                                                               *)
(***************************************************************************)
EXTENDS Integers, Sequences, FiniteSets, TLC

\* ---------------------------------------------------------------- bounds
\* largest number of target peers of a call
MaxTargets == 2
\* largest number of contracts of the first channel of a configuration
MaxChaincodes == 2

\* largest value of the load balancing counter
MaxIndex == 3

\* largest number of periods added to the load balancing counter
MaxPeriods == 2

\* largest number of event sources of the call's channel
MaxSources == 2

\* largest timeout in seconds a caller hands to invokeSmartContract
MaxSeconds == 10

\* the most contexts requested without a release in between, and the most
\* requested at all while every context makes new event hubs
MaxContexts == 2

\* the most runs of installSmartContract
MaxRuns == 3

\* the most calls of createLogger
MaxCalls == 4

\* the most calls of a round
MaxBatch == 3

\* the latest reading of the clock, in half seconds
MaxHalfSeconds == 6

\* the most runs of init
MaxInits == 2

\* the largest storage word written
MaxWord == 2

\* the most storage calls of an invocation
MaxStorageCalls == 3

\* ------------------------------------------------------ program constants
\* this.configSmallestTimeout = 1000
configSmallestTimeout == 1000

\* this.configDefaultTimeout: config.get('fabricCcp:timeout:invokeOrQuery', 60000)
configDefaultTimeout == 60000

\* the step of the clock
TickMs == configSmallestTimeout

\* the timeout budgets (ms) a call is given
Timeouts == {2000}

\* fabricCcp:latencyThreshold, a rational <<numerator, denominator>> in [0, 1]
\* (the default is 1.0)
Thresholds == {<<0, 1>>, <<1, 2>>, <<1, 1>>}

\* invoker identities: a sequence of characters, abbreviated to the sentinel
\* and the rest of the name
Identities == { <<"client0.org1">>, <<"#", "Org1">>,
                <<"ghost">>, <<"#", "Ghost">>,
                <<"#", "client0.org1">>, <<"Org1">> }

\* the keys of this.clientProfiles and this.adminProfiles
clientProfiles == { <<"client0.org1">> }
adminProfiles == { <<"Org1">> }

\* the status an orderer returns with its broadcast response
BroadcastStatuses == {"SUCCESS", "BAD_REQUEST"}

\* the validation codes of a commit event
CommitCodes == {"VALID", "MVCC_READ_CONFLICT"}

\* the orderer of the call (invokeSettings.orderer or the balanced one)
targetOrderer == 1

\* the value of a missing Map entry / an unset variable
Undefined == <<>>

\* no timer armed (cleared or fired)
NoHandle == -1

VARIABLES
    kind,                       \* "submit" or "query": the entry point called
    invokeSettings,             \* the settings object of the call
    timeout,                    \* the timeout budget of the call, in ms
    configVerifyProposalResponse,
    configVerifyReadWriteSets,
    configLatencyThreshold,
    channelEventSourcesCache,   \* the event sources of the call's channel, or Undefined
    txIndex,                    \* this.txIndex
    now,                        \* Date.now()
    pc,                         \* where the call is suspended
    startTime,
    admin,
    invokeStatus,               \* the TxStatus of the call
    proposalResponseObject,     \* the proposal responses received in the last step
    regs,                       \* the commit-event registrations, one per event source
    bcast,                      \* the broadcast to the orderer and its timer
    qry,                        \* the query proposal and its timer
    returnTime,                 \* Date.now() when the call returned
    network,                    \* FabricNetwork.network: the configuration object
    loaded,                     \* "new", "accepted" or "rejected" by the constructor
    tls,                        \* FabricNetwork.tls
    compatibilityMode,          \* FabricNetwork.compatibilityMode
    contractMapping,            \* FabricNetwork.contractMapping
    evmProxies,                 \* FabricNetwork.evmProxies
    randomTargetPeerCache,      \* Fabric.randomTargetPeerCache, or Undefined
    called,                     \* the last accessor call and its outcome
    installed,                  \* the chaincodes installed on the peers
    instantiated,               \* the chaincodes instantiated in the channels
    installRuns,                \* the installSmartContract runs made so far
    eventSources,               \* Fabric.eventSources
    eventHubs,                  \* the state of the event hub of each peer
    RootLogger,                 \* the RootLogger of caliper-logging.js, or Undefined
    loggerCalls,                \* the createLogger calls made so far
    batch,                      \* the calls of the round, in the order they started
    joined,                     \* the channels the peers have joined
    initRuns,                   \* the init runs made so far
    stateManager,               \* the stateManager of the EVM proxy and its stub
    storageCalls                \* the storage calls of the invocation so far

vars == << kind, invokeSettings, timeout, configVerifyProposalResponse,
           configVerifyReadWriteSets, configLatencyThreshold,
           channelEventSourcesCache, txIndex, now, pc, startTime, admin,
           invokeStatus, proposalResponseObject, regs, bcast, qry, returnTime,
           network, loaded, tls, compatibilityMode, contractMapping,
           evmProxies, randomTargetPeerCache, called, installed,
           instantiated, installRuns, eventSources, eventHubs, RootLogger,
           loggerCalls, batch, joined, initRuns, stateManager,
           storageCalls >>

\* the calls of the round, the channels joined and the state of the proxy
sideVars == << batch, joined, initRuns, stateManager, storageCalls >>

\* the peers' ledgers, the event hubs and the logging module
envVars == << installed, instantiated, installRuns, eventSources, eventHubs,
              RootLogger, loggerCalls, sideVars >>

\* the state of the network object and of the caches built from it
netVars == << network, loaded, tls, compatibilityMode, contractMapping,
              evmProxies, randomTargetPeerCache, called >>

inputVars == << kind, invokeSettings, timeout, configVerifyProposalResponse,
                configVerifyReadWriteSets, configLatencyThreshold,
                channelEventSourcesCache, netVars, envVars >>

\* the state of one call
engineVars == << kind, invokeSettings, timeout, configVerifyProposalResponse,
                 configVerifyReadWriteSets, configLatencyThreshold,
                 channelEventSourcesCache, txIndex, now, pc, startTime, admin,
                 invokeStatus, proposalResponseObject, regs, bcast, qry,
                 returnTime >>

\* the state the accessors of the network object leave alone
callVars == << engineVars, envVars >>

\* ------------------------------------------------------------- TxStatus
\* new TxStatus(txId)
NewTxStatus ==
    [status |-> "created", verified |-> FALSE, time_final |-> 0,
     result |-> "null", custom |-> [k \in {} |-> 0]]

\* no TxStatus object exists
NoTxStatus ==
    [status |-> "none", verified |-> FALSE, time_final |-> 0,
     result |-> "null", custom |-> [k \in {} |-> 0]]

\* TxStatus.Set(key, value)
TxSet(st, key, value) ==
    [st EXCEPT !.custom =
        [k \in (DOMAIN st.custom) \cup {key} |->
            IF k = key THEN value ELSE st.custom[k]]]

\* TxStatus.SetVerification(true)
TxSetVerification(st) == [st EXCEPT !.verified = TRUE]

\* TxStatus.SetStatusFail()
TxSetStatusFail(st) == [st EXCEPT !.status = "failed"]

\* TxStatus.SetResult(data)
TxSetResult(st, data) == [st EXCEPT !.result = data]

\* TxStatus.SetStatusSuccess(time)
TxSetStatusSuccess(st, time) ==
    [st EXCEPT !.status = "success", !.time_final = time]

\* ------------------------------------------------------------- helpers
\* invokerIdentity.startsWith('#')
StartsWithSentinel(identity) == Len(identity) > 0 /\ identity[1] = "#"

\* mutant: the admin lookup uses the name with its sentinel
InvokerFoundUnstripped(identity) ==
    IF StartsWithSentinel(identity)
    THEN identity \in adminProfiles
    ELSE identity \in clientProfiles

\* mutant: a name that is no admin is looked up among the clients as well
InvokerFoundAnywhere(identity) ==
    IF StartsWithSentinel(identity)
    THEN Tail(identity) \in adminProfiles \cup clientProfiles
    ELSE identity \in clientProfiles

\* the profile lookup of lines 1314-1319: TRUE when a profile is found
InvokerFound(identity) ==
    IF StartsWithSentinel(identity)
    THEN Tail(identity) \in adminProfiles
    ELSE identity \in clientProfiles

\* lines 244-252 as they would read without the floor
getRemainingTimeoutUnfloored(start, original, threshold) ==
    original - (now - start)

\* fabricUtil.getRemainingTimeout(start, original, threshold)
getRemainingTimeout(start, original, threshold) ==
    LET newTimeout == original - (now - start)
    IN  IF newTimeout < threshold THEN threshold ELSE newTimeout

\* Math.ceil(n / d) for d > 0
Ceil(n, d) == -((-n) \div d)

\* Math.ceil(eventResults.length * this.configLatencyThreshold - 1)
ThresholdIndex(length, threshold) ==
    Ceil(length * threshold[1] - threshold[2], threshold[2])

\* insertion of r into a sequence sorted by time, after the elements that
\* compare equal (Array.prototype.sort with (a, b) => a.time - b.time)
RECURSIVE InsertByTime(_, _)
InsertByTime(sorted, r) ==
    IF sorted = << >> THEN << r >>
    ELSE IF r.time < Head(sorted).time THEN << r >> \o sorted
    ELSE << Head(sorted) >> \o InsertByTime(Tail(sorted), r)

\* mutant: the results are left in source order
Unsorted(results) == results

RECURSIVE SortByTime(_)
SortByTime(results) ==
    IF results = << >> THEN << >>
    ELSE InsertByTime(SortByTime(SubSeq(results, 1, Len(results) - 1)),
                      results[Len(results)])

\* ------------------------------------------------- environment answers
\* what an endorser returns for a proposal: an Error object, or a proposal
\* response with the validity of its signature, its application status and
\* the read/write set it carries
ErrorResponse == [isError |-> TRUE, sigOk |-> FALSE, status |-> 0, rwset |-> 0]

ProposalResponse ==
    {ErrorResponse} \cup
    [isError : {FALSE}, sigOk : BOOLEAN, status : {200, 500}, rwset : {1, 2}]

\* what a target returns for a query: an Error or a value
QueryResults == {"Error", "v1", "v2"}

\* channel.verifyProposalResponse(proposalResponse)
verifyProposalResponse(value) == value.sigOk

\* channel.compareProposalResponseResults(proposalResponses): TRUE when the
\* read/write sets of all responses are the same
compareProposalResponseResults(resps) ==
    \A i, j \in DOMAIN resps : resps[i].rwset = resps[j].rwset

\* mutant: the configuration flag is read inverted
ReadWriteSetsMismatchInverted(resps) ==
    ~configVerifyReadWriteSets /\ ~compareProposalResponseResults(resps)

\* lines 1445-1447: the read/write sets are compared when configured, and differ
ReadWriteSetsMismatch(resps) ==
    configVerifyReadWriteSets /\ ~compareProposalResponseResults(resps)

\* ------------------------------------------ checking endorsement results
\* mutant: a status other than 200 is annotated but not pushed to errors
CheckEndorsementStatusNotPushed(acc, targetName, value) ==
    IF value.isError
    THEN [st |-> TxSetVerification(
                    TxSet(acc.st, <<"proposal_response_error", targetName>>, "message")),
          errors |-> Append(acc.errors, <<"Proposal response error", targetName>>)]
    ELSE
      LET saved == TxSet(TxSetResult(acc.st, "payload"),
                         <<"endorsement_result", targetName>>, "payload")
      IN  IF configVerifyProposalResponse /\ ~verifyProposalResponse(value)
          THEN [st |-> TxSetVerification(
                          TxSet(saved, <<"endorsement_verify_error", targetName>>, "INVALID")),
                errors |-> Append(acc.errors, <<"Couldn't verify endorsement", targetName>>)]
          ELSE IF value.status # 200
          THEN [st |-> TxSetVerification(
                          TxSet(saved, <<"endorsement_result_error", targetName>>, value.status)),
                errors |-> acc.errors]
          ELSE [st |-> saved, errors |-> acc.errors]

\* the body of proposalResponses.forEach((value, index) => ...), lines
\* 1394-1438, for one target; acc holds invokeStatus and the errors array
CheckEndorsement(acc, targetName, value) ==
    IF value.isError
    THEN [st |-> TxSetVerification(
                    TxSet(acc.st, <<"proposal_response_error", targetName>>, "message")),
          errors |-> Append(acc.errors, <<"Proposal response error", targetName>>)]
    ELSE
      LET saved == TxSet(TxSetResult(acc.st, "payload"),
                         <<"endorsement_result", targetName>>, "payload")
      IN  IF configVerifyProposalResponse /\ ~verifyProposalResponse(value)
          THEN [st |-> TxSetVerification(
                          TxSet(saved, <<"endorsement_verify_error", targetName>>, "INVALID")),
                errors |-> Append(acc.errors, <<"Couldn't verify endorsement", targetName>>)]
          ELSE IF value.status # 200
          THEN [st |-> TxSetVerification(
                          TxSet(saved, <<"endorsement_result_error", targetName>>, value.status)),
                errors |-> Append(acc.errors, <<"Endorsement denied", targetName>>)]
          ELSE [st |-> saved, errors |-> acc.errors]

\* lines 1394-1438 as they would read if the loop ended at the first target
\* that fails
RECURSIVE CheckEndorsementsUntilError(_, _, _, _)
CheckEndorsementsUntilError(st, targetPeers, resps, n) ==
    IF n = 0 THEN [st |-> st, errors |-> << >>]
    ELSE LET before == CheckEndorsementsUntilError(st, targetPeers, resps, n - 1)
         IN  IF before.errors # << >> THEN before
             ELSE CheckEndorsement(before, targetPeers[n], resps[n])

\* the forEach over the first n proposal responses
RECURSIVE CheckEndorsements(_, _, _, _)
CheckEndorsements(st, targetPeers, resps, n) ==
    IF n = 0 THEN [st |-> st, errors |-> << >>]
    ELSE CheckEndorsement(CheckEndorsements(st, targetPeers, resps, n - 1),
                          targetPeers[n], resps[n])

\* --------------------------------------------- commit-event registration
NoResult == [successful |-> FALSE, message |-> "", time |-> 0]

\* the time of a failed notification: it is never read (lines 1524-1537 use
\* the message of a failed notification only), so the model does not record
\* the clock in it
FailedTime == NoResult.time

\* nothing registered, nothing sent
NoCall == [state |-> "none", handle |-> NoHandle, status |-> ""]

\* mutant: the listener is registered without a timer
NewRegistrationWithoutTimer(eventSource) ==
    [peer |-> eventSource, registered |-> TRUE, resolved |-> FALSE,
     handle |-> NoHandle, result |-> NoResult]

\* _createEventRegistrationPromise: the registration and its timer
NewRegistration(eventSource) ==
    [peer |-> eventSource, registered |-> TRUE, resolved |-> FALSE,
     handle |-> now + getRemainingTimeout(startTime, timeout, configSmallestTimeout),
     result |-> NoResult]

\* lines 363-364 and 388-389 as they would read without clearTimeout(handle)
ResolvedTimerKept(reg, result) ==
    [reg EXCEPT !.registered = FALSE, !.resolved = TRUE, !.result = result]

\* a registration after one of its callbacks ran: unregisterTxEvent, timer
\* cleared or fired, promise resolved
Resolved(reg, result) ==
    [reg EXCEPT !.registered = FALSE, !.handle = NoHandle,
                !.resolved = TRUE, !.result = result]

AllResolved(rs) == \A i \in DOMAIN rs : rs[i].resolved

\* the value of Promise.all(eventPromises): the results in source order
EventResults(rs) == [i \in DOMAIN rs |-> rs[i].result]

\* mutant: the call fails only when every notification failed
ProcessEventResultsAllFailed(st, eventResults) ==
    LET failedNotifications ==
            SelectSeq(eventResults, LAMBDA er : ~er.successful)
        succeeded == SelectSeq(eventResults, LAMBDA er : er.successful)
        sorted == SortByTime(succeeded)
        thresholdIndex == ThresholdIndex(Len(sorted), configLatencyThreshold)
    IN  IF Len(failedNotifications) = Len(eventResults)
        THEN TxSetStatusFail(st)
        ELSE IF thresholdIndex \in 0 .. (Len(sorted) - 1)
        THEN TxSetStatusSuccess(st, sorted[thresholdIndex + 1].time)
        ELSE TxSet(TxSetStatusFail(st), <<"unexpected_error", 0>>, "TypeError")

\* lines 1524-1548: the verdict from the event results; an index outside the
\* array makes eventResults[thresholdIndex].time throw a TypeError, which the
\* catch of lines 1549-1564 records
ProcessEventResults(st, eventResults) ==
    LET failedNotifications ==
            SelectSeq(eventResults, LAMBDA er : ~er.successful)
        sorted == SortByTime(eventResults)
        thresholdIndex == ThresholdIndex(Len(eventResults), configLatencyThreshold)
    IN  IF Len(failedNotifications) > 0
        THEN TxSetStatusFail(st)
        ELSE IF thresholdIndex \in 0 .. (Len(sorted) - 1)
        THEN TxSetStatusSuccess(st, sorted[thresholdIndex + 1].time)
        ELSE TxSet(TxSetStatusFail(st), <<"unexpected_error", 0>>, "TypeError")

\* line 1523 as it would read with Promise.race(eventPromises)
AfterEventOfFirst(st, rs) ==
    IF pc = "events" /\ \E i \in DOMAIN rs : rs[i].resolved
    THEN /\ invokeStatus' = ProcessEventResults(st, EventResults(rs))
         /\ pc' = "done"
         /\ returnTime' = now
    ELSE /\ invokeStatus' = st
         /\ UNCHANGED << pc, returnTime >>

\* the continuation of `await Promise.all(eventPromises)`: it runs in the
\* turn in which the last registration resolves
AfterEvent(st, rs) ==
    IF pc = "events" /\ AllResolved(rs)
    THEN /\ invokeStatus' = ProcessEventResults(st, EventResults(rs))
         /\ pc' = "done"
         /\ returnTime' = now
    ELSE /\ invokeStatus' = st
         /\ UNCHANGED << pc, returnTime >>

\* ================================================== network configuration
\* the outcome of a call that can throw: Thrown, or the returned value
Thrown == << >>
Returned(value) == << value >>

\* the order in which Object.keys and for-in enumerate the keys of the
\* configuration objects: the order in which the configuration lists them
KeyOrder ==
    << "ch1", "ch2", "OrgA", "OrgB", "p1", "p2", "p3", "ghost", "o1", "o2",
       "ca1", "client0.org1", "client0.org2" >>

\* Object.keys(obj)
Keys(obj) == SelectSeq(KeyOrder, LAMBDA k : k \in DOMAIN obj)

\* the elements of an array
Elements(array) == {array[i] : i \in DOMAIN array}

\* [...new Set(array)]: the array without its repeated elements
RECURSIVE Distinct(_)
Distinct(array) ==
    IF array = << >> THEN << >>
    ELSE LET front == Distinct(SubSeq(array, 1, Len(array) - 1))
             last == array[Len(array)]
         IN  IF last \in Elements(front) THEN front ELSE Append(front, last)

\* util.checkProperty(object, name), on the value of the property
checkProperty(property) == property # Undefined

\* url.startsWith(scheme + '://'): a URL is modelled by its scheme
startsWith(url, scheme) == url = scheme

\* ----------------------------------------------------- FabricNetworkUtil
\* assertNodeExists does not throw
NodeExists(nodeToCheck, existingNodes) ==
    \E i \in DOMAIN existingNodes : existingNodes[i] = nodeToCheck

\* assertAllNodesExist does not throw
AllNodesExist(nodesToCheck, existingNodes) ==
    /\ ~(Len(nodesToCheck) < 1)
    /\ \A i \in DOMAIN nodesToCheck : NodeExists(nodesToCheck[i], existingNodes)

\* getContractIdOfChaincode
getContractIdOfChaincode(chaincodeObj) ==
    IF checkProperty(chaincodeObj.contractID)
    THEN chaincodeObj.contractID[1] ELSE chaincodeObj.id

\* the peer of a channel counts as endorsing: the flag is absent or true
EndorsingPeer(peer) == peer.endorsingPeer \in {"undefined", "true"}

\* the peer of a channel counts as answering queries: flag absent or true
ChaincodeQueryPeer(peer) == peer.chaincodeQuery \in {"undefined", "true"}

\* getTargetPeersOfChannel: the peers of the channel that endorse or that
\* answer chaincode queries, in the order of the channel's peer section
getTargetPeersOfChannel(channelObj) ==
    SelectSeq(Keys(channelObj.peers),
              LAMBDA key : \/ EndorsingPeer(channelObj.peers[key])
                           \/ ChaincodeQueryPeer(channelObj.peers[key]))

\* getTargetPeersOfChaincode: the explicit target peers, or Undefined
getTargetPeersOfChaincode(chaincodeObj) ==
    IF checkProperty(chaincodeObj.targetPeers)
    THEN << Distinct(chaincodeObj.targetPeers[1]) >> ELSE Undefined

\* getPeersOfChannel
getPeersOfChannel(channelObj) == Keys(channelObj.peers)

\* getPeersOfOrganization
getPeersOfOrganization(orgObj) == Distinct(orgObj.peers)

\* --------------------------------------------------------- FabricNetwork
getChannels == Keys(network.channels)
getOrganizations == Keys(network.organizations)
getPeers == Keys(network.peers)
getOrderers == Keys(network.orderers)
getClients == Keys(network.clients)

\* getOrganizationOfPeer: the first organization that lists the peer; it
\* throws for a peer no organization lists and for a peer not configured
OwnersOfPeer(peer) ==
    SelectSeq(getOrganizations,
              LAMBDA org : peer \in Elements(network.organizations[org].peers))

getOrganizationOfPeer(peer) ==
    IF peer \notin DOMAIN network.peers \/ OwnersOfPeer(peer) = << >>
    THEN Thrown
    ELSE Returned(Head(OwnersOfPeer(peer)))

\* getChannelsOfPeer: the channels whose peer section names the peer; it
\* throws when there is none
getChannelsOfPeer(peer) ==
    LET result == SelectSeq(getChannels,
                     LAMBDA c : peer \in DOMAIN network.channels[c].peers)
    IN  IF peer \notin DOMAIN network.peers \/ Len(result) = 0
        THEN Thrown ELSE Returned(result)

\* getOrganizationsOfChannel: the owners of the channel's peers; it throws
\* when getOrganizationOfPeer does
getOrganizationsOfChannel(channel) ==
    LET peers == getPeersOfChannel(network.channels[channel])
    IN  IF \E i \in DOMAIN peers : getOrganizationOfPeer(peers[i]) = Thrown
        THEN Thrown
        ELSE Returned({getOrganizationOfPeer(peers[i])[1] : i \in DOMAIN peers})

\* getPeersOfOrganizationAndChannel: the organization's peers that are in
\* the channel, in the order the organization lists them
getPeersOfOrganizationAndChannel(org, channel) ==
    SelectSeq(getPeersOfOrganization(network.organizations[org]),
              LAMBDA p : p \in DOMAIN network.channels[channel].peers)

\* getTargetPeersOfChaincodeOfChannel: the explicit targets of the contract,
\* else the target peers of the channel
getTargetPeersOfChaincodeOfChannel(chaincodeInfo, channel) ==
    LET channelObj == network.channels[channel]
        found == SelectSeq(channelObj.chaincodes,
                     LAMBDA cc : cc.id = chaincodeInfo.id
                                 /\ cc.version = chaincodeInfo.version)
    IN  IF found = << >> THEN Thrown
        ELSE IF getTargetPeersOfChaincode(found[1]) # Undefined
             THEN Returned(getTargetPeersOfChaincode(found[1])[1])
             ELSE Returned(getTargetPeersOfChannel(channelObj))

\* getContractDetails
getContractDetails(contractID) ==
    IF contractID \in DOMAIN contractMapping
    THEN contractMapping[contractID] ELSE Undefined

\* getEvmProxyChaincodeOfChannel
getEvmProxyChaincodeOfChannel(channel) ==
    IF channel \in DOMAIN evmProxies THEN evmProxies[channel] ELSE Undefined

\* ------------------------------------------ _validateNetworkConfiguration
\* the contract ID `${channel}.#EVM` of the proxy contract of a channel
EvmContractID(channel) == IF channel = "ch1" THEN "ch1.#EVM" ELSE "ch2.#EVM"

\* chaincodesCollection.some(cc => cc.language === 'solidity')
HasSolidity(chaincodesCollection) ==
    \E i \in DOMAIN chaincodesCollection :
        chaincodesCollection[i].language = "solidity"

\* the target peers of the contracts of an array, one after the other
RECURSIVE TargetsOfAll(_, _)
TargetsOfAll(chaincodes, channel) ==
    IF chaincodes = << >> THEN << >>
    ELSE TargetsOfAll(SubSeq(chaincodes, 1, Len(chaincodes) - 1), channel)
         \o getTargetPeersOfChaincodeOfChannel(chaincodes[Len(chaincodes)], channel)[1]

\* lines 764-776, as they would read without the explicit target list
ProxyTargetPeersUnionOnly(channel) ==
    LET channelObj == network.channels[channel]
    IN  Distinct(TargetsOfAll(
            SelectSeq(channelObj.chaincodes,
                      LAMBDA c : c.language = "solidity"),
            channel))

\* lines 764-776: the target peers of the proxy contract of a channel: the
\* list given by evmProxyChaincode.targetPeers, else the union of the target
\* peers of the channel's solidity contracts
\* (evmProxyChaincode stands for evmProxyChaincode.targetPeers: a section
\* without the list and an absent section take the same branch)
ProxyTargetPeers(channel) ==
    LET channelObj == network.channels[channel]
    IN  IF checkProperty(channelObj.evmProxyChaincode)
        THEN channelObj.evmProxyChaincode[1]
        ELSE Distinct(TargetsOfAll(
                 SelectSeq(channelObj.chaincodes,
                           LAMBDA c : c.language = "solidity"),
                 channel))

\* lines 756-763: the proxy contract of a channel
proxyCC(channel) ==
    [id |-> "evmcc", contractID |-> << EvmContractID(channel) >>,
     version |-> "v0", language |-> "golang",
     targetPeers |-> << ProxyTargetPeers(channel) >>]

\* lines 754-782 and _addChaincodeToChannelConfig: the contracts of a
\* channel once the proxy contract is put in front of them
ChaincodesAfterProxy(channel) ==
    LET chaincodesCollection == network.channels[channel].chaincodes
    IN  IF HasSolidity(chaincodesCollection)
        THEN << proxyCC(channel) >> \o chaincodesCollection
        ELSE chaincodesCollection

\* line 750: chaincodesCollection.size < 1, where chaincodesCollection is an
\* array: an array has no size property, and undefined < 1 is false
SizeLessThanOne(chaincodesCollection) == FALSE

\* the contracts of all channels, each with its channel, in the order the
\* validation visits them
RECURSIVE ContractsOf(_)
ContractsOf(channels) ==
    IF channels = << >> THEN << >>
    ELSE LET ch == channels[Len(channels)]
             ccs == ChaincodesAfterProxy(ch)
         IN  ContractsOf(SubSeq(channels, 1, Len(channels) - 1))
             \o [i \in DOMAIN ccs |-> [channel |-> ch, cc |-> ccs[i]]]

\* lines 806-808 as they would read with a mapping per channel
ContractIdsUniqueInChannel(contracts) ==
    \A i, j \in DOMAIN contracts :
        (i # j /\ contracts[i].channel = contracts[j].channel)
        => getContractIdOfChaincode(contracts[i].cc)
             # getContractIdOfChaincode(contracts[j].cc)

\* lines 804-808: no contract ID is met twice
ContractIdsUnique(contracts) ==
    \A i, j \in DOMAIN contracts :
        i # j => getContractIdOfChaincode(contracts[i].cc)
                   # getContractIdOfChaincode(contracts[j].cc)

\* lines 795-801: no id@version is met twice in a channel
IdAndVersionUnique(contracts) ==
    \A i, j \in DOMAIN contracts :
        ( /\ i # j
          /\ contracts[i].channel = contracts[j].channel )
        => ~ ( /\ contracts[i].cc.id = contracts[j].cc.id
               /\ contracts[i].cc.version = contracts[j].cc.version )

\* lines 655-706: the clients section passes
ClientsValid ==
    /\ ~(Len(getClients) < 1)
    /\ \A c \in DOMAIN network.clients : network.clients[c].identity # "none"

\* lines 696-704: the organizations whose CA is needed to enroll or
\* register a client
requiredCas ==
    {network.clients[c].organization :
        c \in {x \in DOMAIN network.clients :
                  network.clients[x].identity \in {"enrollSecret", "affiliation"}}}

\* lines 713-877: the channels section passes
ChannelsValid ==
    /\ ~(Len(getChannels) < 1)
    /\ \A channel \in DOMAIN network.channels :
          LET channelObj == network.channels[channel]
              chaincodesCollection == ChaincodesAfterProxy(channel)
          IN  /\ AllNodesExist(channelObj.orderers, getOrderers)
              /\ AllNodesExist(Keys(channelObj.peers), getPeers)
              /\ ~SizeLessThanOne(channelObj.chaincodes)
              /\ \A i \in DOMAIN chaincodesCollection :
                    checkProperty(chaincodesCollection[i].targetPeers)
                    => AllNodesExist(chaincodesCollection[i].targetPeers[1], getPeers)
    /\ IdAndVersionUnique(ContractsOf(getChannels))
    /\ ContractIdsUnique(ContractsOf(getChannels))

\* lines 880-921: the organizations section passes
OrganizationsValid ==
    /\ ~(Len(getOrganizations) < 1)
    /\ \A org \in DOMAIN network.organizations :
          LET orgObj == network.organizations[org]
          IN  /\ AllNodesExist(orgObj.peers, getPeers)
              /\ checkProperty(orgObj.certificateAuthorities)
                 => /\ checkProperty(network.certificateAuthorities)
                    /\ AllNodesExist(orgObj.certificateAuthorities[1],
                                     Keys(network.certificateAuthorities[1]))

\* lines 927-947: the orderers section passes
OrderersValid == ~(Len(getOrderers) < 1)

\* lines 955-998: the peers section passes
PeersValid ==
    /\ ~(Len(getPeers) < 1)
    /\ \A peer \in DOMAIN network.peers :
          LET peerObj == network.peers[peer]
          IN  checkProperty(peerObj.eventUrl)
              => ~ \/ /\ startsWith(peerObj.url, "grpcs")
                      /\ startsWith(peerObj.eventUrl[1], "grpc")
                   \/ /\ startsWith(peerObj.url, "grpc")
                      /\ startsWith(peerObj.eventUrl[1], "grpcs")
    /\ (\E peer \in DOMAIN network.peers : checkProperty(network.peers[peer].eventUrl))
       => \A peer \in DOMAIN network.peers : checkProperty(network.peers[peer].eventUrl)

\* lines 980-981: an event URL is detected for some peer
CompatibilityMode ==
    \E peer \in DOMAIN network.peers : checkProperty(network.peers[peer].eventUrl)

\* getCertificateAuthorities
getCertificateAuthorities ==
    IF checkProperty(network.certificateAuthorities)
    THEN Keys(network.certificateAuthorities[1]) ELSE << >>

\* getOrganizationOfCertificateAuthority: the first organization whose CA
\* list includes the CA; it throws when there is none, and when an
\* organization visited on the way has no CA list
getOrganizationOfCertificateAuthority(ca) ==
    LET orgs == getOrganizations
        Includes(org) ==
            /\ checkProperty(network.organizations[org].certificateAuthorities)
            /\ ca \in Elements(network.organizations[org].certificateAuthorities[1])
        owners == SelectSeq(orgs, Includes)
        visited == IF owners = << >> THEN orgs
                   ELSE SelectSeq(orgs, LAMBDA o :
                            \E i, j \in DOMAIN orgs :
                                orgs[i] = o /\ orgs[j] = Head(owners) /\ i < j)
    IN  IF \/ owners = << >>
           \/ \E i \in DOMAIN visited :
                 ~checkProperty(network.organizations[visited[i]].certificateAuthorities)
        THEN Thrown
        ELSE Returned(Head(owners))

\* lines 1003-1035: the certificate authorities section passes
CertificateAuthoritiesValid ==
    \A i \in DOMAIN getCertificateAuthorities :
        LET ca == getCertificateAuthorities[i]
        IN  network.certificateAuthorities[1][ca].registrar
            => getOrganizationOfCertificateAuthority(ca) # Thrown

\* lines 1013-1020: the organizations whose CA has a registrar
providedCas ==
    {getOrganizationOfCertificateAuthority(getCertificateAuthorities[i])[1] :
        i \in {x \in DOMAIN getCertificateAuthorities :
                  network.certificateAuthorities[1][getCertificateAuthorities[x]].registrar}}

\* lines 940, 969, 1023: some orderer or peer uses grpcs, or some CA https
TlsDetected ==
    \/ \E o \in DOMAIN network.orderers : startsWith(network.orderers[o].url, "grpcs")
    \/ \E p \in DOMAIN network.peers : startsWith(network.peers[p].url, "grpcs")
    \/ \E i \in DOMAIN getCertificateAuthorities :
          startsWith(network.certificateAuthorities[1][getCertificateAuthorities[i]].url,
                     "https")

\* lines 1047-1093: with TLS detected, every node uses it
TlsConsistent ==
    TlsDetected =>
        /\ \A o \in DOMAIN network.orderers : startsWith(network.orderers[o].url, "grpcs")
        /\ \A p \in DOMAIN network.peers :
              /\ startsWith(network.peers[p].url, "grpcs")
              /\ CompatibilityMode => startsWith(network.peers[p].eventUrl[1], "grpcs")
        /\ \A i \in DOMAIN getCertificateAuthorities :
              startsWith(network.certificateAuthorities[1][getCertificateAuthorities[i]].url,
                         "https")

\* lines 1098-1105: mutual TLS needs TLS and is not available in
\* compatibility mode
MutualTlsValid ==
    /\ ~(network.mutualTls /\ ~TlsDetected)
    /\ ~(network.mutualTls /\ CompatibilityMode)

\* _validateNetworkConfiguration returns without throwing
ValidNetworkConfiguration ==
    /\ ClientsValid
    /\ ChannelsValid
    /\ OrganizationsValid
    /\ OrderersValid
    /\ PeersValid
    /\ CertificateAuthoritiesValid
    /\ requiredCas \subseteq providedCas
    /\ TlsConsistent
    /\ MutualTlsValid

\* ------------------------------------------------- the configurations
\* a flag of a channel peer: not given, true or false
Flag == {"undefined", "true", "false"}

\* a channel peer given by its name only
DefaultPeer == [endorsingPeer |-> "undefined", chaincodeQuery |-> "undefined"]

\* a contract descriptor
Chaincode(id, contractID, language, targetPeers) ==
    [id |-> id, version |-> "v0", contractID |-> contractID,
     language |-> language, targetPeers |-> targetPeers]

\* a channel
Channel(orderers, peers, chaincodes, evmProxyChaincode) ==
    [orderers |-> orderers, peers |-> peers, chaincodes |-> chaincodes,
     evmProxyChaincode |-> evmProxyChaincode]

\* a peer or an orderer without TLS
PlainNode == [url |-> "grpc", eventUrl |-> Undefined]

\* a network of three peers in two organizations, one orderer, one channel
\* with one contract, and one client with its own key and certificate
BaseNetwork ==
    [mutualTls |-> FALSE,
     clients |-> [c \in {"client0.org1"} |->
                     [organization |-> "OrgA", identity |-> "crypto"]],
     channels |-> [ch \in {"ch1"} |->
                     Channel(<< "o1" >>,
                             [p \in {"p1", "p2", "p3"} |-> DefaultPeer],
                             << Chaincode("cc1", Undefined, "golang", Undefined) >>,
                             Undefined)],
     organizations |->
         [o \in {"OrgA", "OrgB"} |->
             [peers |-> IF o = "OrgA" THEN << "p1", "p2" >> ELSE << "p3" >>,
              certificateAuthorities |-> Undefined]],
     orderers |-> [o \in {"o1"} |-> [url |-> "grpc"]],
     peers |-> [p \in {"p1", "p2", "p3"} |-> PlainNode],
     certificateAuthorities |-> Undefined]

\* the certificate authorities section with the single CA ca1
CaSection(url, registrar) ==
    << [ca \in {"ca1"} |-> [url |-> url, registrar |-> registrar]] >>

\* configurations that differ in the transport of their nodes: two peers,
\* one orderer, at most one certificate authority
TransportNetworks ==
    { [BaseNetwork EXCEPT
          !.mutualTls = mutual,
          !.peers = [p \in {"p1", "p2"} |->
                        [url |-> purl[p], eventUrl |-> eurl[p]]],
          !.orderers = [o \in {"o1"} |-> [url |-> ourl]],
          !.certificateAuthorities = cas,
          !.organizations = [o \in {"OrgA"} |->
                                [peers |-> << "p1", "p2" >>,
                                 certificateAuthorities |->
                                     IF cas = Undefined THEN Undefined
                                     ELSE << << "ca1" >> >>]],
          !.channels = [ch \in {"ch1"} |->
                           [@[ch] EXCEPT !.peers =
                               [p \in {"p1", "p2"} |-> DefaultPeer]]]] :
        mutual \in BOOLEAN,
        purl \in [{"p1", "p2"} -> {"grpc", "grpcs", "http"}],
        eurl \in [{"p1", "p2"} -> {Undefined, << "grpc" >>, << "grpcs" >>}],
        ourl \in {"grpc", "grpcs"},
        cas \in {Undefined, CaSection("http", FALSE), CaSection("https", FALSE)} }

\* configurations that differ in who owns the peers, which peers are in
\* the channel with which flags, and which peers the contract targets
TopologyNetworks ==
    { [BaseNetwork EXCEPT
          !.organizations =
              [o \in {"OrgA", "OrgB"} |->
                  [peers |-> IF o = "OrgA" THEN peersA ELSE peersB,
                   certificateAuthorities |-> Undefined]],
          !.channels = [ch \in {"ch1"} |->
              Channel(<< "o1" >>,
                      [p \in inChannel |->
                          IF p = "p2"
                          THEN [endorsingPeer |-> endorsing, chaincodeQuery |-> query]
                          ELSE DefaultPeer],
                      << Chaincode("cc1", Undefined, "golang", targets) >>,
                      Undefined)]] :
        peersA \in {<< "p1", "p2" >>, << "p1" >>, << "p2", "p1" >>},
        peersB \in {<< "p3" >>, << "p2", "p3" >>},
        inChannel \in {{"p1", "p2", "p3"}, {"p1", "p3"}, {"p1", "p2"}},
        endorsing \in Flag,
        query \in Flag,
        targets \in {Undefined, << << "p1", "p3" >> >>, << << "p1", "p2" >> >>,
                     << << "p3" >> >>, << << "p2", "p3", "p1" >> >>} }

\* the contract descriptors the configurations below are made of
Chaincodes ==
    { Chaincode(id, contractID, language, targets) :
        id \in {"cc1", "cc2"},
        contractID \in {Undefined, << "cc2" >>},
        language \in {"golang", "solidity"},
        targets \in {Undefined, << << "p3" >> >>} }

\* the arrays of at most n contract descriptors
ChaincodeArrays(n) ==
    UNION { [1 .. m -> Chaincodes] : m \in 0 .. n }

\* configurations that differ in the contracts of their channels
ContractNetworks ==
    { [BaseNetwork EXCEPT
          !.channels =
              [ch \in {"ch1"} \cup (IF second = << >> THEN {} ELSE {"ch2"}) |->
                  Channel(<< "o1" >>,
                          [p \in {"p1", "p2", "p3"} |-> DefaultPeer],
                          IF ch = "ch1" THEN first ELSE second[1],
                          IF ch = "ch1" THEN proxy ELSE Undefined)]] :
        first \in ChaincodeArrays(MaxChaincodes),
        second \in {<< >>,
                    << << Chaincode("cc1", Undefined, "golang", Undefined) >> >>,
                    << << Chaincode("cc3", << "cc2" >>, "golang", Undefined) >> >>,
                    << << Chaincode("cc3", Undefined, "solidity", Undefined) >> >>},
        proxy \in {Undefined, << << "p1" >> >>} }

\* configurations that differ in the names they refer to
ReferenceNetworks ==
    { [BaseNetwork EXCEPT
          !.clients = [c \in {"client0.org1"} |->
                          [organization |-> clientOrg, identity |-> identity]],
          !.channels = [ch \in {"ch1"} |->
              Channel(orderers,
                      [p \in inChannel |-> DefaultPeer],
                      << Chaincode("cc1", Undefined, "golang", targets) >>,
                      Undefined)],
          !.organizations =
              [o \in {"OrgA", "OrgB"} |->
                  [peers |-> IF o = "OrgA" THEN peersA ELSE << "p3" >>,
                   certificateAuthorities |->
                       IF o = "OrgA" THEN casA ELSE Undefined]],
          !.certificateAuthorities = cas] :
        clientOrg \in {"OrgA", "ghost"},
        identity \in {"crypto", "enrollSecret", "none"},
        orderers \in {<< >>, << "o1" >>, << "ghost" >>},
        inChannel \in {{}, {"p1", "p3"}, {"p1", "ghost"}},
        targets \in {Undefined, << << "p1" >> >>, << << "ghost" >> >>},
        peersA \in {<< >>, << "p1", "p2" >>, << "p1", "ghost" >>},
        casA \in {Undefined, << << "ca1" >> >>, << << "ghost" >> >>},
        cas \in {Undefined, CaSection("http", TRUE), CaSection("http", FALSE)} }

\* the configurations handed to the constructor
Networks ==
    TransportNetworks \cup TopologyNetworks \cup ContractNetworks
        \cup ReferenceNetworks

\* ------------------------------------------------ Fabric: target selection
\* getChaincodesOfChannel
getChaincodesOfChannel(channel) == network.channels[channel].chaincodes

\* the (channel, id, version) triples of the configured contracts
ChaincodeKeys ==
    UNION {{<< channel, cc.id, cc.version >> :
              cc \in Elements(getChaincodesOfChannel(channel))} :
           channel \in DOMAIN network.channels}

\* lines 1155-1161: the organizations of the target peers, in the order the
\* target peers give them
TargetOrgs(targetPeers) ==
    Distinct([i \in DOMAIN targetPeers |-> getOrganizationOfPeer(targetPeers[i])[1]])

\* lines 1150-1170: the cache entry of one contract: for each organization
\* of a target peer, the organization's peers in the channel that are target
\* peers of the contract
CacheEntry(channel, chaincode) ==
    LET targetPeers == getTargetPeersOfChaincodeOfChannel(chaincode, channel)[1]
        targetOrgs == TargetOrgs(targetPeers)
    IN  [i \in DOMAIN targetOrgs |->
            [org |-> targetOrgs[i],
             peers |-> SelectSeq(
                 getPeersOfOrganizationAndChannel(targetOrgs[i], channel),
                 LAMBDA p : p \in Elements(targetPeers))]]

\* _prepareCaches throws: getOrganizationOfPeer throws for a target peer
PrepareCachesThrows ==
    \E channel \in DOMAIN network.channels :
        \E cc \in Elements(getChaincodesOfChannel(channel)) :
            \E p \in Elements(getTargetPeersOfChaincodeOfChannel(cc, channel)[1]) :
                getOrganizationOfPeer(p) = Thrown

\* lines 1146-1171: the cache of every contract of every channel
TargetPeerCache ==
    [key \in ChaincodeKeys |->
        CacheEntry(key[1], [id |-> key[2], version |-> key[3]])]

\* the element of an array at an index, undefined outside of the array
\* (index NaN included, which stands for a remainder by zero)
ElementAt(array, index) ==
    IF index + 1 \in DOMAIN array THEN array[index + 1] ELSE "undefined"

\* lines 257-258 as they would read with the counter used as the index
PickByCounter(peers, loadBalancingCounter) ==
    ElementAt(peers, loadBalancingCounter)

\* lines 257-258: peers[loadBalancingCounter % peers.length]
PickRoundRobin(peers, loadBalancingCounter) ==
    IF Len(peers) = 0 THEN "undefined"
    ELSE ElementAt(peers, loadBalancingCounter % Len(peers))

\* _assembleRandomTargetPeers: one peer of each organization of the cache
\* entry of the contract
assembleRandomTargetPeers(key, loadBalancingCounter) ==
    LET chaincodeOrgs == randomTargetPeerCache[1][key]
    IN  [i \in DOMAIN chaincodeOrgs |->
            PickRoundRobin(chaincodeOrgs[i].peers, loadBalancingCounter)]

\* ------------------------------------------------------ NetSpec: actions
\* no accessor was called yet
NoCalled == [op |-> "none", args |-> << >>, threw |-> FALSE, value |-> << >>]

\* the outcome of a call that can throw, as a record
Outcome(op, args, result) ==
    [op |-> op, args |-> args, threw |-> result = Thrown,
     value |-> IF result = Thrown THEN << >> ELSE result[1]]

\* lines 552-558 of the FabricNetwork constructor, line 156 of the Fabric
\* constructor: the fields before the configuration is validated
NetNew ==
    /\ loaded = "new"
    /\ tls = FALSE
    /\ compatibilityMode = FALSE
    /\ contractMapping = << >>
    /\ evmProxies = << >>
    /\ randomTargetPeerCache = Undefined
    /\ called = NoCalled

\* lines 804-811: the mapping after the contracts were added one by one
RECURSIVE MappingOf(_)
MappingOf(contracts) ==
    IF contracts = << >> THEN << >>
    ELSE LET last == contracts[Len(contracts)]
         IN  (getContractIdOfChaincode(last.cc) :>
                 [channel |-> last.channel, id |-> last.cc.id,
                  version |-> last.cc.version, language |-> last.cc.language])
             @@ MappingOf(SubSeq(contracts, 1, Len(contracts) - 1))

\* the FabricNetwork constructor: the configuration is validated; when it
\* passes, the proxy contracts are in the channels and the fields are set
Load ==
    /\ loaded = "new"
    /\ IF ValidNetworkConfiguration
       THEN /\ loaded' = "accepted"
            /\ network' = [network EXCEPT !.channels =
                  [ch \in DOMAIN network.channels |->
                      [network.channels[ch] EXCEPT
                          !.chaincodes = ChaincodesAfterProxy(ch)]]]
            /\ tls' = TlsDetected
            /\ compatibilityMode' = CompatibilityMode
            /\ contractMapping' = MappingOf(ContractsOf(getChannels))
            /\ evmProxies' =
                  [ch \in {c \in DOMAIN network.channels :
                              HasSolidity(network.channels[c].chaincodes)} |->
                      EvmContractID(ch)]
       ELSE /\ loaded' = "rejected"
            /\ UNCHANGED << network, tls, compatibilityMode, contractMapping,
                            evmProxies >>
    /\ UNCHANGED << randomTargetPeerCache, called, callVars >>

\* _prepareCaches, called by the Fabric constructor on the loaded network
PrepareCaches ==
    /\ loaded = "accepted"
    /\ randomTargetPeerCache = Undefined
    /\ called.op # "_prepareCaches"
    /\ IF PrepareCachesThrows
       THEN /\ called' = Outcome("_prepareCaches", << >>, Thrown)
            /\ UNCHANGED randomTargetPeerCache
       ELSE /\ called' = Outcome("_prepareCaches", << >>, Returned(<< >>))
            /\ randomTargetPeerCache' = << TargetPeerCache >>
    /\ UNCHANGED << network, loaded, tls, compatibilityMode, contractMapping,
                    evmProxies, callVars >>

\* _assembleRandomTargetPeers for a contract of the cache, with the load
\* balancing counter (this.clientIndex or this.txIndex) at some value
AssembleRandomTargetPeers(key, loadBalancingCounter) ==
    /\ randomTargetPeerCache # Undefined
    /\ key \in DOMAIN randomTargetPeerCache[1]
    /\ called' = Outcome("_assembleRandomTargetPeers",
                         << key, loadBalancingCounter >>,
                         Returned(assembleRandomTargetPeers(key, loadBalancingCounter)))
    /\ UNCHANGED << network, loaded, tls, compatibilityMode, contractMapping,
                    evmProxies, randomTargetPeerCache, callVars >>

\* getOrganizationOfPeer for a configured peer
OrganizationOfPeer(peer) ==
    /\ loaded = "accepted"
    /\ peer \in DOMAIN network.peers
    /\ called' = Outcome("getOrganizationOfPeer", << peer >>,
                         getOrganizationOfPeer(peer))
    /\ UNCHANGED << network, loaded, tls, compatibilityMode, contractMapping,
                    evmProxies, randomTargetPeerCache, callVars >>

\* getChannelsOfPeer for a configured peer
ChannelsOfPeer(peer) ==
    /\ loaded = "accepted"
    /\ peer \in DOMAIN network.peers
    /\ called' = Outcome("getChannelsOfPeer", << peer >>, getChannelsOfPeer(peer))
    /\ UNCHANGED << network, loaded, tls, compatibilityMode, contractMapping,
                    evmProxies, randomTargetPeerCache, callVars >>

\* getOrganizationsOfChannel for a configured channel
OrganizationsOfChannel(channel) ==
    /\ loaded = "accepted"
    /\ channel \in DOMAIN network.channels
    /\ called' = Outcome("getOrganizationsOfChannel", << channel >>,
                         getOrganizationsOfChannel(channel))
    /\ UNCHANGED << network, loaded, tls, compatibilityMode, contractMapping,
                    evmProxies, randomTargetPeerCache, callVars >>

\* lines 149 and 189 of the Fabric constructor are done: the configuration
\* was accepted and the caches are prepared
NetLoaded ==
    /\ ValidNetworkConfiguration
    /\ ~PrepareCachesThrows
    /\ loaded = "accepted"
    /\ tls = TlsDetected
    /\ compatibilityMode = CompatibilityMode
    /\ contractMapping = MappingOf(ContractsOf(getChannels))
    /\ evmProxies = << >>
    /\ randomTargetPeerCache = << TargetPeerCache >>
    /\ called = NoCalled

\* nothing is installed or instantiated, no context was requested and no
\* logger was created
EnvIdle ==
    /\ installed = {}
    /\ instantiated = {}
    /\ installRuns = << >>
    /\ eventSources = << >>
    /\ eventHubs = << >>
    /\ RootLogger = Undefined
    /\ loggerCalls = << >>
    /\ batch = << >>
    /\ joined = {}
    /\ initRuns = << >>
    /\ stateManager = Undefined
    /\ storageCalls = << >>

\* the call-level state while the network object is looked at
CallIdle ==
    /\ kind = "submit"
    /\ invokeSettings = [invokerIdentity |-> << "client0.org1" >>,
                         targetPeers |-> << 1 >>]
    /\ timeout = 2000
    /\ configVerifyProposalResponse = TRUE
    /\ configVerifyReadWriteSets = TRUE
    /\ configLatencyThreshold = << 1, 1 >>
    /\ channelEventSourcesCache = Undefined
    /\ txIndex = -1
    /\ now = 0
    /\ pc = "init"
    /\ startTime = 0
    /\ admin = FALSE
    /\ invokeStatus = NoTxStatus
    /\ proposalResponseObject = << >>
    /\ regs = << >>
    /\ bcast = NoCall
    /\ qry = NoCall
    /\ returnTime = 0
    /\ EnvIdle

\* a configuration is handed to the constructor
NetInit ==
    /\ network \in Networks
    /\ NetNew
    /\ CallIdle

NetNext ==
    \/ Load
    \/ PrepareCaches
    \/ \E key \in ChaincodeKeys, loadBalancingCounter \in 0 .. MaxIndex :
          AssembleRandomTargetPeers(key, loadBalancingCounter)
    \/ \E peer \in DOMAIN network.peers : OrganizationOfPeer(peer)
    \/ \E peer \in DOMAIN network.peers : ChannelsOfPeer(peer)
    \/ \E channel \in DOMAIN network.channels : OrganizationsOfChannel(channel)

NetSpec == NetInit /\ [][NetNext]_vars

\* ============================================ the entry points of the adapter
\* timeout || this.configDefaultTimeout: an absent timeout and the timeout 0
\* are falsy
TimeoutOrDefault(timeoutArg) ==
    IF timeoutArg = Undefined \/ timeoutArg[1] = 0
    THEN configDefaultTimeout ELSE timeoutArg[1]

\* lines 1726 and 1758 (1798 and 1830 for a query): the timeout handed to
\* _submitSingleTransaction or _submitSingleQuery
TimeoutInMs(timeoutArg) == TimeoutOrDefault(timeoutArg) * 1000

\* the contract IDs a caller names
ContractIDs == {"cc1", "ghost"}

\* the timeouts a caller gives: none, or a number of seconds
TimeoutArgs == {Undefined} \cup {<< seconds >> : seconds \in 0 .. MaxSeconds}

\* invokeSmartContract / querySmartContract with one settings object or an
\* array of them: every settings object is resolved against the contract
\* mapping and handed on with the timeout in milliseconds; the call throws
\* when the contract ID is not known
EntryCall(op, contractID, settingsCount, timeoutArg) ==
    /\ loaded = "accepted"
    /\ pc = "init"
    /\ IF getContractDetails(contractID) = Undefined
       THEN /\ called' = Outcome(op, << contractID, settingsCount, timeoutArg >>, Thrown)
            /\ UNCHANGED << kind, timeout >>
       ELSE /\ called' = Outcome(op, << contractID, settingsCount, timeoutArg >>,
                                 Returned([i \in 1 .. settingsCount |->
                                              TimeoutInMs(timeoutArg)]))
            /\ kind' = IF op = "invokeSmartContract" THEN "submit" ELSE "query"
            /\ timeout' = TimeoutInMs(timeoutArg)
    /\ UNCHANGED << invokeSettings, configVerifyProposalResponse,
                    configVerifyReadWriteSets, configLatencyThreshold,
                    channelEventSourcesCache, txIndex, now, pc, startTime,
                    admin, invokeStatus, proposalResponseObject, regs, bcast,
                    qry, returnTime >>
    /\ UNCHANGED << network, loaded, tls, compatibilityMode, contractMapping,
                    evmProxies, randomTargetPeerCache, envVars >>

\* invokeSmartContract(context, contractID, contractVersion, invokeSettings, timeout)
InvokeSmartContract(contractID, settingsCount, timeoutArg) ==
    EntryCall("invokeSmartContract", contractID, settingsCount, timeoutArg)

\* querySmartContract(context, contractID, contractVersion, querySettings, timeout)
QuerySmartContract(contractID, settingsCount, timeoutArg) ==
    EntryCall("querySmartContract", contractID, settingsCount, timeoutArg)

\* the adapter is constructed on the base configuration; no call was made
EntryInit ==
    /\ network = BaseNetwork
    /\ NetLoaded
    /\ CallIdle

EntryNext ==
    \/ \E contractID \in ContractIDs, settingsCount \in 1 .. MaxTargets,
          timeoutArg \in TimeoutArgs :
          InvokeSmartContract(contractID, settingsCount, timeoutArg)
    \/ \E contractID \in ContractIDs, settingsCount \in 1 .. MaxTargets,
          timeoutArg \in TimeoutArgs :
          QuerySmartContract(contractID, settingsCount, timeoutArg)

EntrySpec == EntryInit /\ [][EntryNext]_vars

\* ------------------------------------------ getContext and releaseContext
\* the seq of seqs laid end to end
RECURSIVE Flatten(_)
Flatten(arrays) ==
    IF arrays = << >> THEN << >>
    ELSE Flatten(SubSeq(arrays, 1, Len(arrays) - 1)) \o arrays[Len(arrays)]

\* getAllEventSources: the peers of the channels, each once (a channel peer
\* is an event source unless its eventSource flag says otherwise; the
\* configurations here do not set the flag)
getAllEventSources ==
    Distinct(Flatten([i \in DOMAIN getChannels |->
                         getPeersOfChannel(network.channels[getChannels[i]])]))

\* the organizations of the peers of a channel, in the order in which
\* getOrganizationsOfChannel adds them to its Set
OrganizationsInOrder(channel) ==
    LET peers == getPeersOfChannel(network.channels[channel])
    IN  Distinct([i \in DOMAIN peers |-> getOrganizationOfPeer(peers[i])[1]])

\* an event hub: new EventHub(admin) is a new object at every getContext
\* (generation says which), while getChannelEventHubsForOrg hands out the
\* one ChannelEventHub the client keeps for the peer of the channel
PeerEventHub(peer, generation) ==
    [peer |-> peer, channel |-> "", generation |-> generation]
ChannelEventHub(peer, channel) ==
    [peer |-> peer, channel |-> channel, generation |-> 0]

\* the getContext calls made so far in compatibility mode
Generation ==
    IF DOMAIN eventHubs = {} THEN 0
    ELSE CHOOSE g \in {h.generation : h \in DOMAIN eventHubs} :
            \A h \in DOMAIN eventHubs : h.generation <= g

\* lines 1606-1622: the event sources of a context in compatibility mode
PeerLevelSources ==
    [i \in DOMAIN getAllEventSources |->
        [channel |-> getChannelsOfPeer(getAllEventSources[i])[1],
         peer |-> getAllEventSources[i],
         eventHub |-> PeerEventHub(getAllEventSources[i], Generation + 1)]]

\* lines 1634-1640: the event sources of an organization in a channel
SourcesOfOrg(channel, org) ==
    LET peers == getPeersOfOrganizationAndChannel(org, channel)
    IN  [i \in DOMAIN peers |->
            [channel |-> << channel >>, peer |-> peers[i],
             eventHub |-> ChannelEventHub(peers[i], channel)]]

\* lines 1623-1642: the event sources of a context otherwise
ChannelLevelSources ==
    Flatten([c \in DOMAIN getChannels |->
        Flatten([o \in DOMAIN OrganizationsInOrder(getChannels[c]) |->
            SourcesOfOrg(getChannels[c], OrganizationsInOrder(getChannels[c])[o])])])

\* lines 1604-1643: the event sources getContext pushes
ContextSources ==
    IF compatibilityMode THEN PeerLevelSources ELSE ChannelLevelSources

\* eventHub.connect(false): a hub that is not connected starts to connect
Connect(hubs, sources) ==
    LET asked == {sources[i].eventHub : i \in DOMAIN sources}
    IN  [h \in DOMAIN hubs \cup asked |->
            IF h \in asked /\ (h \notin DOMAIN hubs \/ hubs[h] = "disconnected")
            THEN "connecting" ELSE hubs[h]]

\* lines 1652-1669 as they would read if every event source were put in the
\* list of every channel
ChannelEventSourcesUnfiltered(sources, channel) ==
    [i \in DOMAIN sources |-> i]

\* lines 1652-1669: the entry of a channel in the rebuilt cache, as the
\* positions of its event sources in this.eventSources; the entry exists
\* only when some event source serves the channel
ChannelEventSources(sources, channel) ==
    SelectSeq([i \in DOMAIN sources |-> i],
              LAMBDA i : channel \in Elements(sources[i].channel))

\* the channel of the calls of the round
CallChannel == "ch1"

\* lines 1601-1672: getContext(name, args, clientIdx), on the state of the
\* adapter
GetContextCall ==
    /\ loaded = "accepted"
    /\ randomTargetPeerCache # Undefined
    /\ pc = "init"
    /\ Len(eventSources) < MaxContexts * Len(ContextSources)
    /\ Generation < MaxContexts
    /\ eventSources' = eventSources \o ContextSources
    /\ eventHubs' = Connect(eventHubs, eventSources')
    /\ txIndex' = -1
    /\ channelEventSourcesCache' = ChannelEventSources(eventSources', CallChannel)
    /\ called' = Outcome("getContext", << >>, Returned(<< >>))
    /\ UNCHANGED << kind, invokeSettings, timeout, configVerifyProposalResponse,
                    configVerifyReadWriteSets, configLatencyThreshold, now, pc,
                    startTime, admin, invokeStatus, proposalResponseObject,
                    regs, bcast, qry, returnTime >>
    /\ UNCHANGED << network, loaded, tls, compatibilityMode, contractMapping,
                    evmProxies, randomTargetPeerCache >>
    /\ UNCHANGED << installed, instantiated, installRuns, RootLogger, loggerCalls >>

\* getContext(name, args, clientIdx)
GetContext ==
    /\ GetContextCall
    /\ UNCHANGED sideVars

\* the hubs of the event sources that answer isconnected() with true
ConnectedHubs(sources) ==
    {sources[i].eventHub : i \in {j \in DOMAIN sources :
                                     eventHubs[sources[j].eventHub] = "connected"}}

\* lines 1843-1847 as they would read with the first event source only
DisconnectFirstOnly(hubs, sources) ==
    [h \in DOMAIN hubs |->
        IF Len(sources) > 0 /\ h = sources[1].eventHub /\ hubs[h] = "connected"
        THEN "disconnected" ELSE hubs[h]]

\* lines 1843-1847: every event source whose hub is connected is disconnected
Disconnect(hubs, sources) ==
    [h \in DOMAIN hubs |->
        IF h \in {sources[i].eventHub : i \in DOMAIN sources} /\ hubs[h] = "connected"
        THEN "disconnected" ELSE hubs[h]]

\* releaseContext(context)
ReleaseContext ==
    /\ loaded = "accepted"
    /\ pc = "init"
    /\ eventHubs' = Disconnect(eventHubs, eventSources)
    /\ eventSources' = << >>
    /\ called' = Outcome("releaseContext",
                         << ConnectedHubs(eventSources), Len(eventSources) >>,
                         Returned(<< >>))
    /\ UNCHANGED << kind, invokeSettings, timeout, configVerifyProposalResponse,
                    configVerifyReadWriteSets, configLatencyThreshold,
                    channelEventSourcesCache, txIndex, now, pc, startTime,
                    admin, invokeStatus, proposalResponseObject, regs, bcast,
                    qry, returnTime >>
    /\ UNCHANGED << network, loaded, tls, compatibilityMode, contractMapping,
                    evmProxies, randomTargetPeerCache >>
    /\ UNCHANGED << installed, instantiated, installRuns, RootLogger, loggerCalls,
                    sideVars >>

\* the connection of a hub that was asked to connect is established
HubConnects(h) ==
    /\ eventHubs[h] = "connecting"
    /\ eventHubs' = [eventHubs EXCEPT ![h] = "connected"]
    /\ UNCHANGED << engineVars, netVars, installed, instantiated, installRuns,
                    eventSources, RootLogger, loggerCalls, sideVars >>

\* the connection of a hub breaks, or cannot be established
HubFails(h) ==
    /\ eventHubs[h] \in {"connecting", "connected"}
    /\ eventHubs' = [eventHubs EXCEPT ![h] = "disconnected"]
    /\ UNCHANGED << engineVars, netVars, installed, instantiated, installRuns,
                    eventSources, RootLogger, loggerCalls, sideVars >>

\* the configurations the contexts are requested on: the base configuration,
\* the same with a second channel on one of its peers, and the same with
\* the event URLs of a Fabric v1.0 network
ContextNetworks ==
    { BaseNetwork,
      [BaseNetwork EXCEPT !.channels =
          [ch \in {"ch1", "ch2"} |->
              Channel(<< "o1" >>,
                      [p \in IF ch = "ch1" THEN {"p1", "p2"} ELSE {"p2", "p3"} |->
                          DefaultPeer],
                      << Chaincode(IF ch = "ch1" THEN "cc1" ELSE "cc2",
                                   Undefined, "golang", Undefined) >>,
                      Undefined)]],
      [BaseNetwork EXCEPT !.peers =
          [p \in {"p1", "p2", "p3"} |-> [url |-> "grpc", eventUrl |-> << "grpc" >>]]] }

\* the adapter is constructed on one of the configurations
ContextInit ==
    /\ network \in ContextNetworks
    /\ NetLoaded
    /\ CallIdle

ContextNext ==
    \/ GetContext
    \/ ReleaseContext
    \/ \E h \in DOMAIN eventHubs : HubConnects(h)
    \/ \E h \in DOMAIN eventHubs : HubFails(h)

ContextSpec == ContextInit /\ [][ContextNext]_vars

\* ------------------------------------------------- installSmartContract
\* the (channel, contract) places in the order the two loops visit them
Places ==
    Flatten([c \in DOMAIN getChannels |->
        [i \in DOMAIN getChaincodesOfChannel(getChannels[c]) |->
            << getChannels[c], i >>]])

\* a request sent to the network
Request(type, channel, cc, targets) ==
    [type |-> type, channel |-> channel, id |-> cc.id, version |-> cc.version,
     targets |-> targets]

\* lines 523-527 as they would read if no peer ever reported the chaincode
AlreadyInstalledNever(ledger, peer, cc) == FALSE

\* lines 523-527: the peer's answer to queryInstalledChaincodes names the
\* chaincode with its version
AlreadyInstalled(ledger, peer, cc) == << peer, cc.id, cc.version >> \in ledger

\* lines 698-702: the answer to queryInstantiatedChaincodes names the
\* chaincode with its version
AlreadyInstantiated(ledger, channel, cc) ==
    << channel, cc.id, cc.version >> \in ledger

\* lines 548-558: the organizations of the channel that have a peer among
\* the install targets, in the order of the channel
InstallOrganizations(channel, installTargets) ==
    SelectSeq(OrganizationsInOrder(channel),
        LAMBDA org : \E i \in DOMAIN installTargets :
            installTargets[i] \in Elements(getPeersOfOrganization(
                                      network.organizations[org])))

\* lines 549-619: the install requests, one for each organization up to the
\* first one in unreachable, whose request is rejected as a whole
InstallRequests(channel, cc, installTargets, orgs, unreachable) ==
    LET failed == {o \in DOMAIN orgs : orgs[o] \in unreachable}
        last == IF failed = {} THEN Len(orgs)
                ELSE CHOOSE o \in failed : \A f \in failed : o <= f
    IN  [o \in 1 .. last |->
            Request("install", channel, cc,
                SelectSeq(installTargets,
                    LAMBDA p : p \in Elements(getPeersOfOrganization(
                                   network.organizations[orgs[o]]))))]

\* lines 598-637: the requests are sent one after the other. The last one
\* is rejected when thrown is set, which the catch of lines 617-619 throws
\* on at once; the errors the peers in rejecting answer with are collected
\* and thrown after the last organization
SendInstallRequests(acc, cc, requests, thrown, rejecting) ==
    LET answered == IF thrown THEN SubSeq(requests, 1, Len(requests) - 1)
                    ELSE requests
        sentTo == UNION {Elements(answered[r].targets) : r \in DOMAIN answered}
    IN  [acc EXCEPT
            !.installed = @ \cup {<< p, cc.id, cc.version >> :
                                     p \in sentTo \ rejecting},
            !.requests = @ \o requests,
            !.threw = thrown \/ sentTo \cap rejecting # {}]

\* lines 543-637: the chaincode is installed on the peers that lack it
InstallOnTargets(acc, channel, cc, installTargets, orgs, rejecting, unreachable) ==
    IF Len(installTargets) < 1
    THEN acc
    ELSE IF getOrganizationsOfChannel(channel) = Thrown
    THEN [acc EXCEPT !.threw = TRUE]
    ELSE SendInstallRequests(acc, cc,
             InstallRequests(channel, cc, installTargets, orgs, unreachable),
             \E o \in DOMAIN orgs : orgs[o] \in unreachable, rejecting)

\* lines 497-640: one chaincode of one channel in _installChaincodes. acc is
\* the run so far: what is installed, the requests sent, whether it threw.
\* The queries to the peers in down fail; the peers in rejecting answer an
\* install proposal with an error; the install request of the organizations
\* in unreachable is rejected as a whole
InstallMissing(acc, channel, cc, installTargets, rejecting, unreachable) ==
    InstallOnTargets(acc, channel, cc, installTargets,
        InstallOrganizations(channel, installTargets), rejecting, unreachable)

InstallChaincode(acc, channel, cc, down, rejecting, unreachable) ==
    LET targetPeers == getTargetPeersOfChaincodeOfChannel(cc, channel)[1]
    IN  IF acc.threw \/ cc.language = "solidity" \/ Len(targetPeers) < 1
        THEN acc
        ELSE IF \/ \E i \in DOMAIN targetPeers :
                      getOrganizationOfPeer(targetPeers[i]) = Thrown
                \/ Elements(targetPeers) \cap down # {}
        THEN [acc EXCEPT !.threw = TRUE]
        ELSE InstallMissing(acc, channel, cc,
                 SelectSeq(targetPeers,
                     LAMBDA peer : ~AlreadyInstalled(acc.installed, peer, cc)),
                 rejecting, unreachable)

\* _installChaincodes over the places from the n-th on
RECURSIVE InstallChaincodes(_, _, _, _, _)
InstallChaincodes(acc, n, down, rejecting, unreachable) ==
    IF n > Len(Places) THEN acc
    ELSE InstallChaincodes(
             InstallChaincode(acc, Places[n][1],
                 getChaincodesOfChannel(Places[n][1])[Places[n][2]],
                 down, rejecting, unreachable),
             n + 1, down, rejecting, unreachable)

\* lines 664-850: one Fabric chaincode of one channel in
\* _instantiateChaincodes. In the channels in refusing the instantiation
\* fails: at an endorser, at the orderer, or with a commit that is not valid
InstantiateChaincode(acc, channel, cc, down, refusing) ==
    LET targetPeers == getTargetPeersOfChaincodeOfChannel(cc, channel)[1]
    IN  IF acc.threw \/ cc.language = "solidity" \/ Len(targetPeers) < 1
        THEN acc
        ELSE IF \/ getOrganizationOfPeer(targetPeers[1]) = Thrown
                \/ targetPeers[1] \in down
        THEN [acc EXCEPT !.threw = TRUE]
        ELSE IF AlreadyInstantiated(acc.instantiated, channel, cc)
        THEN acc
        ELSE [acc EXCEPT
                 !.instantiated =
                     IF channel \in refusing THEN @
                     ELSE @ \cup {<< channel, cc.id, cc.version >>},
                 !.requests =
                     Append(@, Request("instantiate", channel, cc, targetPeers)),
                 !.threw = channel \in refusing]

\* the transactions and queries of lines 858-1024 for one channel when all
\* of them succeed: a deployment per Solidity contract, and for every client
\* and admin a query of its address and a transaction that sets its balance
CallsOfDeployment(channel) ==
    Len(SelectSeq(getChaincodesOfChannel(channel),
                  LAMBDA cc : cc.language = "solidity"))
    + 2 * (Cardinality(clientProfiles) + Cardinality(adminProfiles))

\* lines 853-1026: with Solidity contracts in some channel, a context is
\* requested for every channel, the Solidity contracts of the channel are
\* deployed by transactions to its proxy contract, in every run, and the
\* context is released. In the channels in refusing the first deployment is
\* not committed, which throws; the accounts of a channel without a proxy
\* contract are looked up under an undefined contract ID, which throws
DeploySolidity(acc, channel, refusing) ==
    LET solidity == SelectSeq(getChaincodesOfChannel(channel),
                              LAMBDA cc : cc.language = "solidity")
        deployments == [i \in DOMAIN solidity |->
                           Request("deploy", channel, solidity[i], << >>)]
    IN  IF acc.threw \/ DOMAIN evmProxies = {}
        THEN acc
        ELSE IF Len(solidity) > 0 /\ channel \in refusing
        THEN [acc EXCEPT !.requests = Append(@, deployments[1]),
                         !.threw = TRUE, !.contexts = @ + 1, !.held = TRUE,
                         !.txIndex = 0]
        ELSE IF channel \notin DOMAIN evmProxies
        THEN [acc EXCEPT !.requests = @ \o deployments,
                         !.threw = TRUE, !.contexts = @ + 1, !.held = TRUE,
                         !.txIndex = Len(solidity) - 1]
        ELSE [acc EXCEPT !.requests = @ \o deployments,
                         !.contexts = @ + 1, !.held = FALSE,
                         !.txIndex = CallsOfDeployment(channel) - 1]

\* lines 655-851: the Fabric chaincodes of channel c from the n-th on
RECURSIVE InstantiateChaincodesOf(_, _, _, _, _)
InstantiateChaincodesOf(acc, channel, n, down, refusing) ==
    IF n > Len(getChaincodesOfChannel(channel)) THEN acc
    ELSE InstantiateChaincodesOf(
             InstantiateChaincode(acc, channel,
                 getChaincodesOfChannel(channel)[n], down, refusing),
             channel, n + 1, down, refusing)

\* _instantiateChaincodes over the channels from the c-th on
RECURSIVE InstantiateChaincodes(_, _, _, _)
InstantiateChaincodes(acc, c, down, refusing) ==
    IF c > Len(getChannels) THEN acc
    ELSE InstantiateChaincodes(
             DeploySolidity(
                 InstantiateChaincodesOf(acc, getChannels[c], 1, down, refusing),
                 getChannels[c], refusing),
             c + 1, down, refusing)

\* the run of installSmartContract from the state the network is in
InstallRun(down, rejecting, unreachable, refusing) ==
    LET start == [installed |-> installed, instantiated |-> instantiated,
                  requests |-> << >>, threw |-> FALSE, contexts |-> 0,
                  held |-> FALSE, txIndex |-> txIndex]
        afterInstall == InstallChaincodes(start, 1, down, rejecting, unreachable)
    IN  IF afterInstall.threw THEN afterInstall
        ELSE InstantiateChaincodes(afterInstall, 1, down, refusing)

\* the hubs of the event sources once disconnected: by the time a context
\* of the deployment is released, its hubs are connected
Released(hubs, sources) ==
    [h \in DOMAIN hubs |->
        IF h \in {sources[i].eventHub : i \in DOMAIN sources}
        THEN "disconnected" ELSE hubs[h]]

\* installSmartContract(): _installChaincodes, then _instantiateChaincodes.
\* The network keeps what was installed and instantiated, also by a run
\* that threw. A run that requested contexts leaves the event sources of
\* the last one behind when it threw before the release
InstallSmartContract(down, rejecting, unreachable, refusing) ==
    LET run == InstallRun(down, rejecting, unreachable, refusing)
        first == eventSources \o ContextSources
        last == IF run.contexts = 1 THEN first ELSE ContextSources
        released == Released(Connect(eventHubs, first), first)
    IN  /\ loaded = "accepted"
        /\ randomTargetPeerCache # Undefined
        /\ pc = "init"
        /\ Len(installRuns) < MaxRuns
        /\ installed' = run.installed
        /\ instantiated' = run.instantiated
        /\ installRuns' = Append(installRuns,
                                 [requests |-> run.requests, threw |-> run.threw])
        /\ txIndex' = run.txIndex
        /\ IF run.contexts = 0
           THEN UNCHANGED << eventSources, eventHubs, channelEventSourcesCache >>
           ELSE /\ eventSources' = IF run.held THEN last ELSE << >>
                /\ eventHubs' =
                      IF ~run.held THEN released
                      ELSE IF run.contexts = 1 THEN Connect(eventHubs, first)
                      ELSE Connect(released, last)
                /\ channelEventSourcesCache' = ChannelEventSources(last, CallChannel)
        /\ UNCHANGED << kind, invokeSettings, timeout, configVerifyProposalResponse,
                        configVerifyReadWriteSets, configLatencyThreshold, now,
                        pc, startTime, admin, invokeStatus,
                        proposalResponseObject, regs, bcast, qry, returnTime >>
        /\ UNCHANGED << netVars, RootLogger, loggerCalls, sideVars >>

\* the chaincodes the configurations of the runs are made of
ChaincodesToInstall ==
    { Chaincode("cc1", Undefined, "golang", Undefined),
      Chaincode("cc2", Undefined, "golang", << << "p3" >> >>),
      Chaincode("cc3", Undefined, "solidity", Undefined) }

\* the configurations of the runs: a channel of three peers with up to
\* MaxChaincodes chaincodes and, in some, a channel of one of these peers
\* with the first chaincode again or with a Solidity contract
InstallNetworks ==
    { [BaseNetwork EXCEPT !.channels =
          [ch \in {"ch1"} \cup (IF second = Undefined THEN {} ELSE {"ch2"}) |->
              Channel(<< "o1" >>,
                      [p \in IF ch = "ch1" THEN {"p1", "p2", "p3"} ELSE {"p3"} |->
                          DefaultPeer],
                      IF ch = "ch1" THEN first ELSE second[1],
                      Undefined)]] :
        first \in UNION {[1 .. m -> ChaincodesToInstall] : m \in 1 .. MaxChaincodes},
        second \in {Undefined,
                    << << Chaincode("cc1", << "cc1.ch2" >>, "golang", Undefined) >> >>,
                    << << Chaincode("cc3", << "cc3.ch2" >>, "solidity", Undefined) >> >>} }

\* a configuration is handed to the constructor; nothing is installed
InstallInit ==
    /\ network \in InstallNetworks
    /\ NetNew
    /\ CallIdle

InstallNext ==
    \/ Load
    \/ PrepareCaches
    \/ \E down \in SUBSET {"p3"}, rejecting \in SUBSET {"p1", "p3"},
          unreachable \in SUBSET {"OrgA"}, refusing \in SUBSET {"ch1", "ch2"} :
          \* an unreachable organization is the only fault of its run
          /\ unreachable = {} \/ (down = {} /\ rejecting = {} /\ refusing = {})
          /\ InstallSmartContract(down, rejecting, unreachable, refusing)

InstallSpec == InstallInit /\ [][InstallNext]_vars

\* ------------------------------------------------------- caliper-logging
\* the module names loggers are asked for
ModuleNames == {"adapter", "network", "util"}

\* new WinstonLoggerAdapter(): a root logger that is not configured yet
NewRootLogger == [configured |-> FALSE]

\* WinstonLoggerAdapter.configure(): it throws when the logging targets of
\* the configuration cannot be loaded (the setting is not an object, a
\* target has no type, or a type that is not supported), before the logger
\* is touched
configure(rootLogger, supported) ==
    IF supported THEN Returned([rootLogger EXCEPT !.configured = TRUE])
    ELSE Thrown

\* WinstonLoggerAdapter.createChildLogger(moduleName)
createChildLogger(rootLogger, moduleName) ==
    [module |-> moduleName, parent |-> rootLogger]

\* createLogger(moduleName), with a configuration whose logging targets are
\* all of a supported type or not. RootLogger is assigned before it is
\* configured, so it stays assigned when configure() throws
CreateLogger(moduleName, supported) ==
    /\ Len(loggerCalls) < MaxCalls
    /\ IF RootLogger = Undefined
       THEN LET configured == configure(NewRootLogger, supported)
            IN  IF configured = Thrown
                THEN /\ RootLogger' = << NewRootLogger >>
                     /\ loggerCalls' = Append(loggerCalls,
                            [moduleName |-> moduleName, created |-> TRUE,
                             configureCalls |-> 1, result |-> Thrown])
                ELSE /\ RootLogger' = configured
                     /\ loggerCalls' = Append(loggerCalls,
                            [moduleName |-> moduleName, created |-> TRUE,
                             configureCalls |-> 1,
                             result |-> Returned(createChildLogger(configured[1], moduleName))])
       ELSE /\ UNCHANGED RootLogger
            /\ loggerCalls' = Append(loggerCalls,
                   [moduleName |-> moduleName, created |-> FALSE,
                    configureCalls |-> 0,
                    result |-> Returned(createChildLogger(RootLogger[1], moduleName))])
    /\ UNCHANGED << engineVars, netVars, installed, instantiated, installRuns,
                    eventSources, eventHubs, sideVars >>

\* the logging module is loaded; no logger was asked for
LogInit ==
    /\ network = BaseNetwork
    /\ NetLoaded
    /\ CallIdle

LogNext ==
    \E moduleName \in ModuleNames, supported \in BOOLEAN :
        CreateLogger(moduleName, supported)

LogSpec == LogInit /\ [][LogNext]_vars

\* ---------------------------------------------------- the calls of a round
\* lines 1174-1177: the target orderers of a channel, each once
randomTargetOrdererCache(channel) ==
    Distinct(network.channels[channel].orderers)

\* lines 423-430, with configClientBasedLoadBalancing false:
\* orderers[this.txIndex % orderers.length]
getRandomTargetOrderer(channel) ==
    LET orderers == randomTargetOrdererCache(channel)
    IN  IF orderers = << >> THEN "undefined"
        ELSE ElementAt(orderers, txIndex % Len(orderers))

\* the contract of the calls of the round
CallKey == << CallChannel, "cc1", "v0" >>

\* the invoker identities of the calls: a configured client, and a name
\* that is in no profile
Invokers == {"client0.org1", "nobody"}

\* a call of the round: its phase, the target peers it was given at its
\* start, and the orderer it was given when its endorsements arrived
NewCall(callKind, phase, peers) ==
    [kind |-> callKind, state |-> phase, targetPeers |-> peers,
     targetOrderer |-> Undefined]

\* every call of the round has returned
RoundOver == \A n \in DOMAIN batch : batch[n].state \in {"done", "thrown"}

\* what the calls of the round leave alone
roundVars == << kind, invokeSettings, timeout, configVerifyProposalResponse,
                configVerifyReadWriteSets, configLatencyThreshold,
                channelEventSourcesCache, now, pc, startTime, admin,
                invokeStatus, proposalResponseObject, regs, bcast, qry,
                returnTime, netVars, installed, instantiated, installRuns,
                eventSources, eventHubs, RootLogger, loggerCalls, joined,
                initRuns, stateManager, storageCalls >>

\* getContext before a round: the calls of the round before have returned
RoundBegins ==
    /\ RoundOver
    /\ GetContextCall
    /\ batch' = << >>
    /\ UNCHANGED << joined, initRuns, stateManager, storageCalls >>

\* lines 1303-1343 of _submitSingleTransaction, up to the await of the
\* endorsements: the counter is increased, the invoker is looked up and the
\* target peers are assembled (settings without targetPeers, call-based
\* load balancing)
SubmitSingleTransaction(invokerIdentity) ==
    /\ loaded = "accepted"
    /\ randomTargetPeerCache # Undefined
    /\ Len(batch) < MaxBatch
    /\ txIndex' = txIndex + 1
    /\ batch' = Append(batch,
          IF invokerIdentity \in DOMAIN network.clients
          THEN NewCall("submit", "proposal",
                       assembleRandomTargetPeers(CallKey, txIndex'))
          ELSE NewCall("submit", "thrown", << >>))
    /\ UNCHANGED roundVars

\* lines 1188-1259 as they would read without the increase of the counter
SubmitSingleQueryUncounted(invokerIdentity) ==
    /\ loaded = "accepted"
    /\ randomTargetPeerCache # Undefined
    /\ Len(batch) < MaxBatch
    /\ txIndex' = txIndex
    /\ batch' = Append(batch,
          IF invokerIdentity \in DOMAIN network.clients
          THEN NewCall("query", "query",
                       assembleRandomTargetPeers(CallKey, txIndex'))
          ELSE NewCall("query", "thrown", << >>))
    /\ UNCHANGED roundVars

\* lines 1188-1259 of _submitSingleQuery, up to the await of the answers
SubmitSingleQuery(invokerIdentity) ==
    /\ loaded = "accepted"
    /\ randomTargetPeerCache # Undefined
    /\ Len(batch) < MaxBatch
    /\ txIndex' = txIndex + 1
    /\ batch' = Append(batch,
          IF invokerIdentity \in DOMAIN network.clients
          THEN NewCall("query", "query",
                       assembleRandomTargetPeers(CallKey, txIndex'))
          ELSE NewCall("query", "thrown", << >>))
    /\ UNCHANGED roundVars

\* lines 1369-1474: the endorsements of call n arrive; when they pass the
\* checks the orderer of the call is chosen (settings without orderer),
\* otherwise the call ends
Endorsed(n, passed) ==
    /\ batch[n].state = "proposal"
    /\ batch' = [batch EXCEPT ![n] =
          IF passed
          THEN [@ EXCEPT !.state = "broadcast",
                         !.targetOrderer = << getRandomTargetOrderer(CallChannel) >>]
          ELSE [@ EXCEPT !.state = "done"]]
    /\ UNCHANGED << txIndex, roundVars >>

\* the query of call n is answered, or the transaction of call n is
\* ordered and committed: the call returns
CallReturns(n) ==
    /\ batch[n].state \in {"query", "broadcast"}
    /\ batch' = [batch EXCEPT ![n].state = "done"]
    /\ UNCHANGED << txIndex, roundVars >>

\* the base configuration with a second orderer in the channel
BatchNetwork ==
    [BaseNetwork EXCEPT
        !.orderers = [o \in {"o1", "o2"} |-> [url |-> "grpc"]],
        !.channels = [ch \in {"ch1"} |-> [@[ch] EXCEPT !.orderers = << "o1", "o2" >>]]]

\* the adapter is constructed; no call was made
BatchInit ==
    /\ network = BatchNetwork
    /\ NetLoaded
    /\ CallIdle

BatchNext ==
    \/ RoundBegins
    \/ \E invokerIdentity \in Invokers : SubmitSingleTransaction(invokerIdentity)
    \/ \E invokerIdentity \in Invokers : SubmitSingleQuery(invokerIdentity)
    \/ \E n \in DOMAIN batch, passed \in BOOLEAN : Endorsed(n, passed)
    \/ \E n \in DOMAIN batch : CallReturns(n)

BatchSpec == BatchInit /\ [][BatchNext]_vars

\* ------------------------------------------------------------------- init
\* the (channel, organization) places in the order the loops of
\* _joinChannels visit them
JoinPlaces ==
    Flatten([c \in DOMAIN getChannels |->
        [o \in DOMAIN OrganizationsInOrder(getChannels[c]) |->
            << getChannels[c], OrganizationsInOrder(getChannels[c])[o] >>]])

\* a request sent to the orderer ("genesis") or to the peers ("join")
JoinRequest(type, channel, org, targets) ==
    [type |-> type, channel |-> channel, org |-> org, targets |-> targets]

\* line 1060 as it would read if no answer ever named the channel
AlreadyJoinedNever(ledger, peer, channel) == FALSE

\* line 1060: the peer's answer to queryChannels names the channel
AlreadyJoined(ledger, peer, channel) == << peer, channel >> \in ledger

\* lines 1086-1098: genesisBlock is still null for the channel
GenesisNeeded(requests, channel) ==
    ~\E r \in DOMAIN requests :
        requests[r].type = "genesis" /\ requests[r].channel = channel

\* lines 1047-1134: one organization of one channel in _joinChannels. acc is
\* the run so far. queryChannels fails at the peers in down; the orderer
\* does not deliver the genesis block of the channels in blockless; the
\* join request of the organizations in rejected is rejected as a whole;
\* the peers in failing answer a join request with an error
JoinOrganization(acc, channel, org, down, blockless, rejected, failing) ==
    LET peers == getPeersOfOrganizationAndChannel(org, channel)
        peersToJoin ==
            SelectSeq(peers, LAMBDA peer : ~AlreadyJoined(acc.joined, peer, channel))
        fetch == GenesisNeeded(acc.requests, channel)
        fetched == IF fetch
                   THEN Append(acc.requests, JoinRequest("genesis", channel, org, << >>))
                   ELSE acc.requests
        sent == Append(fetched, JoinRequest("join", channel, org, peersToJoin))
    IN  IF acc.threw THEN acc
        ELSE IF Elements(peers) \cap down # {}
        THEN [acc EXCEPT !.threw = TRUE]
        ELSE IF Len(peersToJoin) < 1
        THEN acc
        ELSE IF fetch /\ channel \in blockless
        THEN [acc EXCEPT !.channelJoined = TRUE, !.requests = fetched,
                         !.threw = TRUE]
        ELSE IF org \in rejected
        THEN \* the catch of lines 1118-1120 makes an Error and drops it
             [acc EXCEPT !.channelJoined = TRUE, !.requests = sent,
                         !.reported = @ \cup {<< p, channel >> : p \in Elements(peersToJoin)}]
        ELSE IF Elements(peersToJoin) \cap failing # {}
        THEN [acc EXCEPT !.channelJoined = TRUE, !.requests = sent,
                         !.joined = @ \cup {<< p, channel >> :
                                               p \in Elements(peersToJoin) \ failing},
                         !.threw = TRUE]
        ELSE [acc EXCEPT !.channelJoined = TRUE, !.requests = sent,
                         !.joined = @ \cup {<< p, channel >> : p \in Elements(peersToJoin)},
                         !.reported = @ \cup {<< p, channel >> : p \in Elements(peersToJoin)}]

\* _joinChannels over the places from the n-th on
RECURSIVE JoinChannels(_, _, _, _, _, _)
JoinChannels(acc, n, down, blockless, rejected, failing) ==
    IF n > Len(JoinPlaces) THEN acc
    ELSE JoinChannels(
             JoinOrganization(acc, JoinPlaces[n][1], JoinPlaces[n][2],
                              down, blockless, rejected, failing),
             n + 1, down, blockless, rejected, failing)

\* init() on an adapter whose profiles load and whose channels exist: the
\* run of _joinChannels from the state the peers are in. The peers keep
\* the channels they joined, also in a run that threw
init(down, blockless, rejected, failing) ==
    LET start == [joined |-> joined, requests |-> << >>, threw |-> FALSE,
                  channelJoined |-> FALSE, reported |-> {}]
        run == JoinChannels(start, 1, down, blockless, rejected, failing)
    IN  /\ loaded = "accepted"
        /\ randomTargetPeerCache # Undefined
        /\ Len(initRuns) < MaxInits
        /\ joined' = run.joined
        /\ initRuns' = Append(initRuns,
              [before |-> joined, requests |-> run.requests, threw |-> run.threw,
               slept |-> ~run.threw /\ run.channelJoined,
               reported |-> run.reported,
               env |-> [down |-> down, blockless |-> blockless,
                        rejected |-> rejected, failing |-> failing]])
        /\ UNCHANGED << engineVars, netVars, installed, instantiated, installRuns,
                        eventSources, eventHubs, RootLogger, loggerCalls, batch,
                        stateManager, storageCalls >>

\* the configurations init runs on: one channel, and two channels that
\* share a peer
JoinNetworks ==
    { BaseNetwork,
      [BaseNetwork EXCEPT !.channels =
          [ch \in {"ch1", "ch2"} |->
              Channel(<< "o1" >>,
                      [p \in IF ch = "ch1" THEN {"p1", "p2"} ELSE {"p2", "p3"} |->
                          DefaultPeer],
                      << Chaincode(IF ch = "ch1" THEN "cc1" ELSE "cc2",
                                   Undefined, "golang", Undefined) >>,
                      Undefined)]] }

\* the adapter is constructed on one of the configurations; no peer has
\* joined a channel
JoinInit ==
    /\ network \in JoinNetworks
    /\ NetLoaded
    /\ CallIdle

JoinNext ==
    \E down \in SUBSET {"p3"}, blockless \in SUBSET {"ch1"},
       rejected \in SUBSET {"OrgA", "OrgB"}, failing \in SUBSET {"p1", "p3"} :
       init(down, blockless, rejected, failing)

JoinSpec == JoinInit /\ [][JoinNext]_vars

\* ------------------------------------------ the state manager of the proxy
\* binary.Zero256
Zero256 == 0

\* the storage words
Words == 0 .. MaxWord

\* the account addresses and the storage keys of the invocation
Addresses == {"a1", "a2"}
StorageKeys == {1}

\* strings.ToLower(address.String()) + hex.EncodeToString(key.Bytes()): two
\* hexadecimal strings of fixed lengths, one after the other
CompKey(address, key) == << address, key >>

\* value.Bytes(): the bytes of a word
Bytes(value) == << value >>

\* binary.LeftPadWord256(bytes): the word of the bytes, Zero256 for none
LeftPadWord256(bytes) == IF bytes = << >> THEN Zero256 ELSE bytes[1]

\* stub.GetState(key): the bytes under the key, none when there is no key
GetState(stub, compKey) ==
    IF compKey \in DOMAIN stub.state THEN stub.state[compKey] ELSE << >>

\* stub.PutState(key, bytes): the write goes to the write set; a stub that
\* reads its own writes (the mock stub of the shim) answers with it from
\* then on, the stub of a peer keeps answering with the committed state
PutState(stub, compKey, bytes) ==
    [stub EXCEPT !.writes = (compKey :> bytes) @@ @,
                 !.state = IF stub.readsOwnWrites THEN (compKey :> bytes) @@ @ ELSE @]

\* stub.DelState(key)
DelState(stub, compKey) ==
    [stub EXCEPT !.writes = (compKey :> << >>) @@ @,
                 !.state = IF stub.readsOwnWrites
                           THEN [k \in DOMAIN @ \ {compKey} |-> @[k]] ELSE @]

\* NewStateManager(stub), at the start of an invocation of the proxy: the
\* caches are empty, the stub holds the committed state
NewStateManager(committed, readsOwnWrites) ==
    /\ stateManager = Undefined
    /\ stateManager' = << [stub |-> [state |-> committed, writes |-> << >>,
                                     readsOwnWrites |-> readsOwnWrites],
                           cache |-> << >>] >>
    /\ storageCalls' = << >>
    /\ UNCHANGED << engineVars, netVars, installed, instantiated, installRuns,
                    eventSources, eventHubs, RootLogger, loggerCalls, batch,
                    joined, initRuns >>

\* a storage call and its outcome
StorageCall(op, compKey, value, ok) ==
    [op |-> op, compKey |-> compKey, value |-> value, ok |-> ok]

\* SetStorage(address, key, value); the call of the stub returns an error
\* when fails
SetStorage(address, key, value, fails) ==
    LET s == stateManager[1]
        compKey == CompKey(address, key)
    IN  /\ stateManager # Undefined
        /\ Len(storageCalls) < MaxStorageCalls
        /\ stateManager' =
              IF fails THEN stateManager
              ELSE IF value = Zero256
              THEN << [s EXCEPT !.stub = DelState(s.stub, compKey)] >>
              ELSE << [s EXCEPT !.stub = PutState(s.stub, compKey, Bytes(value)),
                                !.cache = (compKey :> value) @@ @] >>
        /\ storageCalls' = Append(storageCalls,
                                  StorageCall("SetStorage", compKey, value, ~fails))
        /\ UNCHANGED << engineVars, netVars, installed, instantiated, installRuns,
                        eventSources, eventHubs, RootLogger, loggerCalls, batch,
                        joined, initRuns >>

\* GetStorage(address, key); GetState of the stub returns an error when
\* fails
GetStorage(address, key, fails) ==
    LET s == stateManager[1]
        compKey == CompKey(address, key)
        hit == compKey \in DOMAIN s.cache
    IN  /\ stateManager # Undefined
        /\ Len(storageCalls) < MaxStorageCalls
        /\ storageCalls' = Append(storageCalls,
              IF hit THEN StorageCall("GetStorage", compKey, s.cache[compKey], TRUE)
              ELSE IF fails THEN StorageCall("GetStorage", compKey, Zero256, FALSE)
              ELSE StorageCall("GetStorage", compKey,
                               LeftPadWord256(GetState(s.stub, compKey)), TRUE))
        /\ UNCHANGED << engineVars, netVars, installed, instantiated, installRuns,
                        eventSources, eventHubs, RootLogger, loggerCalls, batch,
                        joined, initRuns, stateManager >>

\* the committed states of the invocations: no key, and a word under the
\* key of the first address
CommittedStates == { << >>, CompKey("a1", 1) :> Bytes(1) }

\* the proxy is instantiated; no invocation has begun
StorageInit ==
    /\ network = BaseNetwork
    /\ NetLoaded
    /\ CallIdle

StorageNext ==
    \/ \E committed \in CommittedStates, readsOwnWrites \in BOOLEAN :
          NewStateManager(committed, readsOwnWrites)
    \/ \E address \in Addresses, key \in StorageKeys, value \in Words,
          fails \in BOOLEAN : SetStorage(address, key, value, fails)
    \/ \E address \in Addresses, key \in StorageKeys, fails \in BOOLEAN :
          GetStorage(address, key, fails)

StorageSpec == StorageInit /\ [][StorageNext]_vars

\* --------------------------------------------------------------- Init
Init ==
    /\ kind \in {"submit", "query"}
    /\ invokeSettings \in
          [invokerIdentity : Identities,
           targetPeers : {[i \in 1 .. n |-> i] : n \in 1 .. MaxTargets}]
    /\ timeout \in Timeouts
    /\ configVerifyProposalResponse \in BOOLEAN
    /\ configVerifyReadWriteSets \in BOOLEAN
    /\ configLatencyThreshold \in Thresholds
    /\ channelEventSourcesCache \in {[i \in 1 .. m |-> i] : m \in 0 .. MaxSources}
    /\ txIndex = -1
    /\ now = 0
    /\ pc = "init"
    /\ startTime = 0
    /\ admin = FALSE
    /\ invokeStatus = NoTxStatus
    /\ proposalResponseObject = << >>
    /\ regs = << >>
    /\ bcast = NoCall
    /\ qry = NoCall
    /\ returnTime = 0
    /\ network = BaseNetwork
    /\ NetLoaded
    /\ EnvIdle

\* ------------------------------------------------ _submitSingleTransaction
\* lines 1303-1370: the call up to the proposal being sent to the targets
SubmitStart ==
    /\ pc = "init"
    /\ kind = "submit"
    /\ startTime' = now
    /\ txIndex' = txIndex + 1
    /\ admin' = StartsWithSentinel(invokeSettings.invokerIdentity)
    /\ IF ~InvokerFound(invokeSettings.invokerIdentity)
       THEN /\ pc' = "thrown"
            /\ UNCHANGED invokeStatus
       ELSE /\ pc' = "proposal"
            /\ invokeStatus' = TxSet(NewTxStatus, <<"request_type", 0>>, "transaction")
    /\ proposalResponseObject' = << >>
    /\ UNCHANGED << inputVars, now, regs, bcast, qry, returnTime >>

\* lines 1373-1382 and 1549-1566: sendTransactionProposal rejects
ProposalThrows ==
    /\ pc = "proposal"
    /\ invokeStatus' =
          TxSetStatusFail(TxSetVerification(
              TxSet(invokeStatus, <<"proposal_error", 0>>, "message")))
    /\ pc' = "done"
    /\ returnTime' = now
    /\ proposalResponseObject' = << >>
    /\ UNCHANGED << inputVars, txIndex, now, startTime, admin, regs, bcast, qry >>

\* lines 1389-1497: the proposal responses arrive; they are checked, and when
\* all are accepted the commit listeners are registered and the transaction
\* is sent to the orderer under its timer
ProposalResponds(resps) ==
    /\ pc = "proposal"
    /\ proposalResponseObject' = resps
    /\ LET targetPeers == invokeSettings.targetPeers
           checked == CheckEndorsements(invokeStatus, targetPeers, resps, Len(targetPeers))
           remaining == getRemainingTimeout(startTime, timeout, configSmallestTimeout)
       IN  IF Len(checked.errors) > 0
           THEN /\ invokeStatus' = TxSetStatusFail(checked.st)
                /\ pc' = "done"
                /\ returnTime' = now
                /\ UNCHANGED << regs, bcast >>
           ELSE IF ReadWriteSetsMismatch(resps)
           THEN /\ invokeStatus' =
                      TxSetStatusFail(TxSetVerification(
                          TxSet(checked.st, <<"read_write_set_error", 0>>, "MISMATCH")))
                /\ pc' = "done"
                /\ returnTime' = now
                /\ UNCHANGED << regs, bcast >>
           ELSE IF channelEventSourcesCache = Undefined
           THEN \* this.channelEventSourcesCache.get(channel) is undefined
                /\ invokeStatus' =
                      TxSet(TxSetStatusFail(checked.st), <<"unexpected_error", 0>>, "TypeError")
                /\ pc' = "done"
                /\ returnTime' = now
                /\ UNCHANGED << regs, bcast >>
           ELSE /\ invokeStatus' = checked.st
                /\ regs' = [i \in DOMAIN channelEventSourcesCache |->
                              NewRegistration(channelEventSourcesCache[i])]
                /\ bcast' = [state |-> "sent", handle |-> now + remaining, status |-> ""]
                /\ pc' = "broadcast"
                /\ UNCHANGED returnTime
    /\ UNCHANGED << inputVars, txIndex, now, startTime, admin, qry >>

\* mutant: the status of the broadcast response is not checked
BroadcastAckStatusUnchecked(status) ==
    /\ pc = "broadcast"
    /\ bcast.state = "sent"
    /\ bcast' = [state |-> "acked", handle |-> NoHandle, status |-> status]
    /\ IF AllResolved(regs)
       THEN /\ invokeStatus' = ProcessEventResults(invokeStatus, EventResults(regs))
            /\ pc' = "done"
            /\ returnTime' = now
       ELSE /\ pc' = "events"
            /\ UNCHANGED << invokeStatus, returnTime >>
    /\ proposalResponseObject' = << >>
    /\ UNCHANGED << inputVars, txIndex, now, startTime, admin, regs, qry >>

\* lines 1492-1548: the orderer answers the broadcast before the timer fires.
\* A status other than SUCCESS ends the call; otherwise the call waits for
\* the event results, or processes them at once when all have arrived
BroadcastAck(status) ==
    /\ pc = "broadcast"
    /\ bcast.state = "sent"
    /\ bcast' = [state |-> "acked", handle |-> NoHandle, status |-> status]
    /\ IF status # "SUCCESS"
       THEN /\ invokeStatus' =
                  TxSetStatusFail(TxSetVerification(
                      TxSet(invokeStatus, <<"broadcast_response_error", targetOrderer>>, status)))
            /\ pc' = "done"
            /\ returnTime' = now
       ELSE IF AllResolved(regs)
       THEN /\ invokeStatus' = ProcessEventResults(invokeStatus, EventResults(regs))
            /\ pc' = "done"
            /\ returnTime' = now
       ELSE /\ pc' = "events"
            /\ UNCHANGED << invokeStatus, returnTime >>
    /\ proposalResponseObject' = << >>
    /\ UNCHANGED << inputVars, txIndex, now, startTime, admin, regs, qry >>

\* line 1492: channel.sendTransaction rejects inside the async executor of
\* responsePromise: the executor's own promise rejects, responsePromise stays
\* pending and its timer stays armed
BroadcastSendRejects ==
    /\ pc = "broadcast"
    /\ bcast.state = "sent"
    /\ bcast' = [bcast EXCEPT !.state = "sendRejected"]
    /\ proposalResponseObject' = << >>
    /\ UNCHANGED << inputVars, txIndex, now, pc, startTime, admin, invokeStatus, regs, qry, returnTime >>

\* lines 1488-1490, 1498-1507 and 1549-1566: the broadcast timer fires and
\* rejects responsePromise with TIMEOUT; the catch records broadcast_error,
\* then broadcastResponse.status reads a property of undefined: the TypeError
\* lands in the outer catch
BroadcastTimeout ==
    /\ pc = "broadcast"
    /\ bcast.state \in {"sent", "sendRejected"}
    /\ now >= bcast.handle
    /\ bcast' = [bcast EXCEPT !.handle = NoHandle,
                              !.state = IF bcast.state = "sent" THEN "timedOut"
                                        ELSE "failed"]
    /\ invokeStatus' =
          TxSet(TxSetStatusFail(
                    TxSet(invokeStatus, <<"broadcast_error", targetOrderer>>, "TIMEOUT")),
                <<"unexpected_error", 0>>, "TypeError")
    /\ pc' = "done"
    /\ returnTime' = now
    /\ proposalResponseObject' = << >>
    /\ UNCHANGED << inputVars, txIndex, now, startTime, admin, regs, qry >>

\* lines 1492-1494: the orderer answers after the timer fired: clearTimeout
\* and resolve act on a fired timer and a settled promise
BroadcastLateAck ==
    /\ bcast.state = "timedOut"
    /\ bcast' = [bcast EXCEPT !.state = "lateAck"]
    /\ proposalResponseObject' = << >>
    /\ UNCHANGED << inputVars, txIndex, now, pc, startTime, admin, invokeStatus, regs, qry, returnTime >>

\* ---------------------------------------- _createEventRegistrationPromise
\* a commit event can exist only for a transaction the orderer did not refuse
MayCommit == ~(bcast.state = "acked" /\ bcast.status # "SUCCESS")

\* lines 362-386: the commit event of the transaction arrives from source i
CommitEvent(i, code) ==
    /\ i \in DOMAIN regs
    /\ regs[i].registered
    /\ MayCommit
    /\ LET peer == regs[i].peer
           verified == TxSetVerification(invokeStatus)
           result == [successful |-> code = "VALID",
                      message |-> IF code = "VALID" THEN "undefined" ELSE "Commit error",
                      time |-> IF code = "VALID" THEN now ELSE FailedTime]
           st == IF code # "VALID"
                 THEN TxSet(verified, <<"commit_error", peer>>, code)
                 ELSE TxSet(verified, <<"commit_success", peer>>, now)
           rs == [regs EXCEPT ![i] = Resolved(regs[i], result)]
       IN  /\ regs' = rs
           /\ AfterEvent(st, rs)
    /\ proposalResponseObject' = << >>
    /\ UNCHANGED << inputVars, txIndex, now, startTime, admin, bcast, qry >>

\* lines 387-401 as they would read if the error resolved the promise like
\* a valid commit
EventHubErrorAsSuccess(i) ==
    /\ i \in DOMAIN regs
    /\ regs[i].registered
    /\ LET peer == regs[i].peer
           result == [successful |-> TRUE, message |-> "undefined", time |-> now]
           st == TxSet(invokeStatus, <<"event_hub_error", peer>>, "message")
           rs == [regs EXCEPT ![i] = Resolved(regs[i], result)]
       IN  /\ regs' = rs
           /\ AfterEvent(st, rs)
    /\ proposalResponseObject' = << >>
    /\ UNCHANGED << inputVars, txIndex, now, startTime, admin, bcast, qry >>

\* lines 387-401: the event hub of source i reports an error
EventHubError(i) ==
    /\ i \in DOMAIN regs
    /\ regs[i].registered
    /\ LET peer == regs[i].peer
           result == [successful |-> FALSE, message |-> "Event hub error", time |-> FailedTime]
           st == TxSet(invokeStatus, <<"event_hub_error", peer>>, "message")
           rs == [regs EXCEPT ![i] = Resolved(regs[i], result)]
       IN  /\ regs' = rs
           /\ AfterEvent(st, rs)
    /\ proposalResponseObject' = << >>
    /\ UNCHANGED << inputVars, txIndex, now, startTime, admin, bcast, qry >>

\* lines 345-360: the timer of the registration on source i fires
CommitTimeout(i) ==
    /\ i \in DOMAIN regs
    /\ regs[i].handle # NoHandle
    /\ now >= regs[i].handle
    /\ LET peer == regs[i].peer
           result == [successful |-> FALSE, message |-> "Commit timeout", time |-> FailedTime]
           st == TxSet(invokeStatus, <<"commit_timeout", peer>>, "TIMEOUT")
           rs == [regs EXCEPT ![i] = Resolved(regs[i], result)]
       IN  /\ regs' = rs
           /\ AfterEvent(st, rs)
    /\ proposalResponseObject' = << >>
    /\ UNCHANGED << inputVars, txIndex, now, startTime, admin, bcast, qry >>

\* ------------------------------------------------------ _submitSingleQuery
\* lines 1188-1254: the call up to the query being sent under its timer
QueryStart ==
    /\ pc = "init"
    /\ kind = "query"
    /\ startTime' = now
    /\ txIndex' = txIndex + 1
    /\ admin' = StartsWithSentinel(invokeSettings.invokerIdentity)
    /\ IF ~InvokerFound(invokeSettings.invokerIdentity)
       THEN /\ pc' = "thrown"
            /\ UNCHANGED << invokeStatus, qry >>
       ELSE /\ pc' = "query"
            /\ invokeStatus' =
                  TxSetVerification(TxSet(NewTxStatus, <<"request_type", 0>>, "query"))
            /\ qry' = [state |-> "sent", status |-> "",
                       handle |-> now + getRemainingTimeout(now, timeout, configSmallestTimeout)]
    /\ proposalResponseObject' = << >>
    /\ UNCHANGED << inputVars, now, regs, bcast, returnTime >>

\* lines 1268-1278 as they would read if a result, once set, were kept
CheckQueryResultFirstKept(acc, targetName, value) ==
    IF value = "Error"
    THEN [st |-> TxSet(acc.st, <<"endorsement_result_error", targetName>>, "message"),
          errMsg |-> TRUE]
    ELSE [st |-> TxSet(IF acc.st.result = "null" THEN TxSetResult(acc.st, value)
                       ELSE acc.st,
                       <<"endorsement_result", targetName>>, value),
          errMsg |-> acc.errMsg]

\* the body of results.forEach((value, index) => ...), lines 1268-1278
CheckQueryResult(acc, targetName, value) ==
    IF value = "Error"
    THEN [st |-> TxSet(acc.st, <<"endorsement_result_error", targetName>>, "message"),
          errMsg |-> TRUE]
    ELSE [st |-> TxSet(TxSetResult(acc.st, value), <<"endorsement_result", targetName>>, value),
          errMsg |-> acc.errMsg]

RECURSIVE CheckQueryResults(_, _, _, _)
CheckQueryResults(st, targetPeers, results, n) ==
    IF n = 0 THEN [st |-> st, errMsg |-> FALSE]
    ELSE CheckQueryResult(CheckQueryResults(st, targetPeers, results, n - 1),
                          targetPeers[n], results[n])

\* lines 1254-1285: the targets answer the query before the timer fires
QueryAnswer(results) ==
    /\ pc = "query"
    /\ qry.state = "sent"
    /\ qry' = [qry EXCEPT !.state = "answered", !.handle = NoHandle]
    /\ LET targetPeers == invokeSettings.targetPeers
           checked == CheckQueryResults(invokeStatus, targetPeers, results, Len(targetPeers))
       IN  invokeStatus' = IF checked.errMsg
                           THEN TxSetStatusFail(checked.st)
                           ELSE TxSetStatusSuccess(checked.st, now)
    /\ pc' = "done"
    /\ returnTime' = now
    /\ proposalResponseObject' = << >>
    /\ UNCHANGED << inputVars, txIndex, now, startTime, admin, regs, bcast >>

\* line 1254: channel.queryByChaincode rejects inside the async executor of
\* resultPromise: resultPromise stays pending and its timer stays armed
QuerySendRejects ==
    /\ pc = "query"
    /\ qry.state = "sent"
    /\ qry' = [qry EXCEPT !.state = "sendRejected"]
    /\ proposalResponseObject' = << >>
    /\ UNCHANGED << inputVars, txIndex, now, pc, startTime, admin, invokeStatus, regs, bcast, returnTime >>

\* lines 1250-1252 and 1286-1292: the query timer fires
QueryTimeout ==
    /\ pc = "query"
    /\ qry.state \in {"sent", "sendRejected"}
    /\ now >= qry.handle
    /\ qry' = [qry EXCEPT !.handle = NoHandle,
                          !.state = IF qry.state = "sent" THEN "timedOut" ELSE "failed"]
    /\ invokeStatus' =
          TxSet(TxSetStatusFail(invokeStatus), <<"unexpected_error", 0>>, "TIMEOUT")
    /\ pc' = "done"
    /\ returnTime' = now
    /\ proposalResponseObject' = << >>
    /\ UNCHANGED << inputVars, txIndex, now, startTime, admin, regs, bcast >>

\* lines 1254-1256 as they would read if the late value were recorded
QueryLateAnswerRecorded ==
    /\ qry.state = "timedOut"
    /\ qry' = [qry EXCEPT !.state = "lateAnswer"]
    /\ invokeStatus' = TxSetResult(invokeStatus, "v1")
    /\ proposalResponseObject' = << >>
    /\ UNCHANGED << inputVars, txIndex, now, pc, startTime, admin, regs, bcast, returnTime >>

\* lines 1254-1256: the targets answer after the timer fired
QueryLateAnswer ==
    /\ qry.state = "timedOut"
    /\ qry' = [qry EXCEPT !.state = "lateAnswer"]
    /\ proposalResponseObject' = << >>
    /\ UNCHANGED << inputVars, txIndex, now, pc, startTime, admin, invokeStatus, regs, bcast, returnTime >>

\* ------------------------------------------------------------- the clock
\* a timer that is armed and not yet due
TimerAhead ==
    \/ bcast.handle # NoHandle /\ now < bcast.handle
    \/ qry.handle # NoHandle /\ now < qry.handle
    \/ \E i \in DOMAIN regs : regs[i].handle # NoHandle /\ now < regs[i].handle

\* Date.now() advances while the proposal is out (the client library ends
\* that wait within the timeout it is handed, line 1370) and while an armed
\* timer is not yet due
Tick ==
    /\ \/ pc = "proposal" /\ now - startTime < timeout
       \/ TimerAhead
    /\ now' = now + TickMs
    /\ proposalResponseObject' = << >>
    /\ UNCHANGED << inputVars, txIndex, pc, startTime, admin, invokeStatus, regs, bcast, qry, returnTime >>

\* ------------------------------------------------- the remaining timeout
\* a half second, in ms
HalfSecond == configSmallestTimeout \div 2

\* the readings of the clock, which are also the timeout budgets tried
Readings == {k * HalfSecond : k \in 0 .. MaxHalfSeconds}

\* the smallest allowed timeouts tried: the one of the adapter, a smaller
\* and a larger one
SmallestTimeouts == {1, configSmallestTimeout, 3 * HalfSecond}

\* fabricUtil.getRemainingTimeout is called at a suspension point with a
\* start time that was read from the clock before
GetRemainingTimeout(start, original, threshold) ==
    /\ start <= now
    /\ called' = Outcome("getRemainingTimeout",
                         << start, original, threshold, now >>,
                         Returned(getRemainingTimeout(start, original, threshold)))
    /\ UNCHANGED << network, loaded, tls, compatibilityMode, contractMapping,
                    evmProxies, randomTargetPeerCache, callVars >>

\* Date.now() advances between two suspension points
TimePasses ==
    /\ now + HalfSecond \in Readings
    /\ now' = now + HalfSecond
    /\ UNCHANGED << kind, invokeSettings, timeout, configVerifyProposalResponse,
                    configVerifyReadWriteSets, configLatencyThreshold,
                    channelEventSourcesCache, txIndex, pc, startTime, admin,
                    invokeStatus, proposalResponseObject, regs, bcast, qry,
                    returnTime, netVars, envVars >>

\* the adapter is constructed; the clock reads 0
RemainingInit ==
    /\ network = BaseNetwork
    /\ NetLoaded
    /\ CallIdle

RemainingNext ==
    \/ \E start \in Readings, original \in Readings, threshold \in SmallestTimeouts :
          GetRemainingTimeout(start, original, threshold)
    \/ TimePasses

RemainingSpec == RemainingInit /\ [][RemainingNext]_vars

\* --------------------------------------------------------- specification
ProposalEnds ==
    \/ ProposalThrows
    \/ \E resps \in [DOMAIN invokeSettings.targetPeers -> ProposalResponse] :
          ProposalResponds(resps)

Next ==
    \/ SubmitStart
    \/ ProposalThrows
    \/ \E resps \in [DOMAIN invokeSettings.targetPeers -> ProposalResponse] :
          ProposalResponds(resps)
    \/ \E status \in BroadcastStatuses : BroadcastAck(status)
    \/ BroadcastSendRejects
    \/ BroadcastTimeout
    \/ BroadcastLateAck
    \/ \E i \in 1 .. MaxSources, code \in CommitCodes : CommitEvent(i, code)
    \/ \E i \in 1 .. MaxSources : EventHubError(i)
    \/ \E i \in 1 .. MaxSources : CommitTimeout(i)
    \/ QueryStart
    \/ \E results \in [DOMAIN invokeSettings.targetPeers -> QueryResults] :
          QueryAnswer(results)
    \/ QuerySendRejects
    \/ QueryTimeout
    \/ QueryLateAnswer
    \/ Tick

Spec == Init /\ [][Next]_vars

\* the event loop runs a due timer, the clock advances, a call that was made
\* starts, and the client library ends the proposal within its timeout
LiveSpec ==
    /\ Init
    /\ [][Next]_vars
    /\ WF_vars(SubmitStart)
    /\ WF_vars(QueryStart)
    /\ WF_vars(ProposalEnds)
    /\ WF_vars(BroadcastTimeout)
    /\ WF_vars(QueryTimeout)
    /\ \A i \in 1 .. MaxSources : WF_vars(CommitTimeout(i))
    /\ WF_vars(Tick)

\* ------------------------------------------------------------ properties
\* the annotations of the TxStatus
Annotated(key) == key \in DOMAIN invokeStatus.custom

\* the invoker identity names an existing profile: a client by its plain
\* name, the admin of an organization by '#' and the organization's name
ProfileExists ==
    LET identity == invokeSettings.invokerIdentity
    IN  \/ identity[1] # "#" /\ identity \in clientProfiles
        \/ identity[1] = "#" /\ SubSeq(identity, 2, Len(identity)) \in adminProfiles

\* the call reached the confirmation phase: the orderer answered SUCCESS
Confirming == bcast.state = "acked" /\ bcast.status = "SUCCESS"

\* C1: a submit call that reached the confirmation phase and has returned
\* carries the fail verdict when some event source delivered a commit event
\* with a code other than VALID, whatever the other sources reported and in
\* whatever order.
C1_InvalidCommitFails ==
    ( /\ pc = "done"
      /\ Confirming
      /\ \E i \in DOMAIN regs : Annotated(<<"commit_error", regs[i].peer>>) )
    => invokeStatus.status = "failed"

\* C1 witness: the call returned after one source reported an invalid code
\* and another one a valid commit
C1_Witness ==
    /\ pc = "done"
    /\ Confirming
    /\ \E i, j \in DOMAIN regs :
          /\ Annotated(<<"commit_error", regs[i].peer>>)
          /\ Annotated(<<"commit_success", regs[j].peer>>)
    /\ invokeStatus.status = "failed"

\* the commit time source i recorded in the TxStatus
CommitTimeOf(i) == invokeStatus.custom[<<"commit_success", regs[i].peer>>]

\* the sources that committed before t / no later than t
CommittedBefore(t) == {i \in DOMAIN regs : CommitTimeOf(i) < t}
CommittedUpTo(t) == {i \in DOMAIN regs : CommitTimeOf(i) <= t}

\* C2: when the endorsements were accepted, the orderer answered SUCCESS and
\* all M >= 1 event sources reported a VALID commit, submit returns the
\* success verdict and its committed-at time is the element at index
\* ceil(M*threshold - 1) of the ascending commit times, for a threshold in
\* (0, 1]: it is a commit time t with fewer than M*threshold sources
\* committed before t and at least M*threshold sources committed up to t.
C2_CommitTimeAtThreshold ==
    ( /\ pc = "done"
      /\ Confirming
      /\ regs # << >>
      /\ \A i \in DOMAIN regs : Annotated(<<"commit_success", regs[i].peer>>)
      /\ configLatencyThreshold[1] > 0 )
    => /\ invokeStatus.status = "success"
       /\ LET t == invokeStatus.time_final
              M == Len(regs)
              num == configLatencyThreshold[1]
              den == configLatencyThreshold[2]
          IN  /\ \E i \in DOMAIN regs : CommitTimeOf(i) = t
              /\ den * Cardinality(CommittedBefore(t)) < M * num
              /\ M * num <= den * Cardinality(CommittedUpTo(t))

\* C2 witness: two sources committed at different times and the threshold
\* one half selected the earlier one
C2_Witness ==
    /\ pc = "done"
    /\ invokeStatus.status = "success"
    /\ configLatencyThreshold = <<1, 2>>
    /\ Len(regs) = 2
    /\ CommitTimeOf(1) > CommitTimeOf(2)
    /\ invokeStatus.time_final = CommitTimeOf(2)

\* the broadcast failed at transport level: the send rejected or no
\* acknowledgement arrived before the timer
BroadcastLost == bcast.state \in {"timedOut", "failed", "lateAck"}

\* C3 (as claimed): after a transport failure of the broadcast the call goes
\* on to the confirmation phase, and with every event source reporting a
\* valid commit it returns the success verdict.
C3_BroadcastLossNotFatal ==
    ( /\ pc = "done"
      /\ BroadcastLost
      /\ \A i \in DOMAIN regs : Annotated(<<"commit_success", regs[i].peer>>) )
    => invokeStatus.status = "success"

WaitsHaveTimers ==
    /\ pc = "broadcast" => bcast.handle # NoHandle
    /\ pc = "query" => qry.handle # NoHandle
    /\ \A i \in DOMAIN regs : ~regs[i].resolved => regs[i].handle # NoHandle

BroadcastRefused == bcast.state = "acked" /\ bcast.status # "SUCCESS"

\* C6: when the orderer answers the broadcast with a status other than
\* SUCCESS, the call has returned with the fail verdict in that very step,
\* whatever the state of the commit registrations, and the TxStatus holds the
\* returned status under broadcast_response_error_<orderer>.
C6_RefusedBroadcastFails ==
    BroadcastRefused =>
        /\ pc = "done"
        /\ invokeStatus.status = "failed"
        /\ Annotated(<<"broadcast_response_error", targetOrderer>>)
        /\ invokeStatus.custom[<<"broadcast_response_error", targetOrderer>>] = bcast.status

\* C6 witness: the call returned on the refusal while no commit
\* registration was resolved
C6_Witness ==
    /\ BroadcastRefused
    /\ pc = "done"
    /\ Len(regs) = 2
    /\ \A i \in DOMAIN regs : ~regs[i].resolved

\* endorser j alone answered with a status other than 200
SingleNon200(resps, j) ==
    /\ ~resps[j].isError
    /\ resps[j].status # 200
    /\ \A k \in DOMAIN resps : k # j => ~resps[k].isError /\ resps[k].status = 200

\* the call ended with the fail verdict and nothing was sent to an orderer
FailedBeforeBroadcast ==
    /\ pc = "done"
    /\ invokeStatus.status = "failed"
    /\ bcast = NoCall

\* C7 (as claimed): if a single endorser answers with a status other than
\* 200, submit returns the fail verdict with the annotation
\* endorsement_result_error_<peer> of that endorser, and nothing is broadcast.
C7_Non200AnnotatedAsResultError ==
    \A j \in DOMAIN proposalResponseObject :
        SingleNon200(proposalResponseObject, j) =>
            /\ FailedBeforeBroadcast
            /\ Annotated(<<"endorsement_result_error", invokeSettings.targetPeers[j]>>)

\* C7 (amended): if a single endorser answers with a status other than 200,
\* submit returns the fail verdict, nothing is broadcast, and the TxStatus has
\* an annotation keyed by that endorser: endorsement_result_error_<peer>
\* holding the status, or endorsement_verify_error_<peer> when signature
\* verification is configured and that response does not pass it.
C7_Non200AnnotatedByEndorser ==
    \A j \in DOMAIN proposalResponseObject :
        SingleNon200(proposalResponseObject, j) =>
            /\ FailedBeforeBroadcast
            /\ LET peer == invokeSettings.targetPeers[j]
               IN  IF configVerifyProposalResponse /\ ~proposalResponseObject[j].sigOk
                   THEN Annotated(<<"endorsement_verify_error", peer>>)
                   ELSE /\ Annotated(<<"endorsement_result_error", peer>>)
                        /\ invokeStatus.custom[<<"endorsement_result_error", peer>>]
                              = proposalResponseObject[j].status

\* C7 witness: the second of two targets was refused for its status, the
\* first one was accepted, and the call failed before any broadcast
C7_Witness ==
    /\ pc = "done"
    /\ invokeStatus.status = "failed"
    /\ Len(invokeSettings.targetPeers) = 2
    /\ Len(proposalResponseObject) = 2
    /\ SingleNon200(proposalResponseObject, 2)
    /\ DOMAIN invokeStatus.custom =
          { <<"request_type", 0>>, <<"endorsement_result", 1>>,
            <<"endorsement_result", 2>>, <<"endorsement_result_error", 2>> }
    /\ bcast = NoCall

\* every response passed the checks of the endorsement phase
Accepted(resps) ==
    \A k \in DOMAIN resps :
        /\ ~resps[k].isError
        /\ resps[k].status = 200
        /\ configVerifyProposalResponse => resps[k].sigOk

\* C8: with read/write-set verification configured, when the accepted
\* responses do not carry the same read/write set, submit returns the fail
\* verdict with the annotation read_write_set_error, and in that call no
\* commit listener is registered and nothing is broadcast.
C8_MismatchFailsBeforeRegistration ==
    /\ ( /\ configVerifyReadWriteSets
         /\ proposalResponseObject # << >>
         /\ Accepted(proposalResponseObject)
         /\ \E i, j \in DOMAIN proposalResponseObject :
               proposalResponseObject[i].rwset # proposalResponseObject[j].rwset )
       => /\ FailedBeforeBroadcast
          /\ Annotated(<<"read_write_set_error", 0>>)
          /\ regs = << >>
    /\ Annotated(<<"read_write_set_error", 0>>)
       => /\ FailedBeforeBroadcast
          /\ regs = << >>

\* C8 witness: the call failed on a read/write set mismatch
C8_Witness ==
    /\ pc = "done"
    /\ configVerifyReadWriteSets
    /\ Len(proposalResponseObject) = 2
    /\ Accepted(proposalResponseObject)
    /\ proposalResponseObject[1].rwset # proposalResponseObject[2].rwset
    /\ Annotated(<<"read_write_set_error", 0>>)
    /\ invokeStatus.status = "failed"
    /\ regs = << >>

\* C9 (as claimed): once the call has returned, no later step modifies its
\* TxStatus.
C9_ImmutableOnceReturned ==
    [][ pc = "done" => invokeStatus' = invokeStatus ]_vars

\* C10: a submit or query call whose invoker names no profile ends with a
\* thrown error: no TxStatus is created and no proposal, broadcast or
\* registration is made.
C10_UnknownInvokerThrows ==
    (~ProfileExists /\ pc # "init") =>
        /\ pc = "thrown"
        /\ invokeStatus = NoTxStatus
        /\ regs = << >>
        /\ bcast = NoCall
        /\ qry = NoCall

\* C10 witness: a '#'-prefixed name of no organization made a query throw
C10_Witness ==
    /\ pc = "thrown"
    /\ kind = "query"
    /\ StartsWithSentinel(invokeSettings.invokerIdentity)
    /\ invokeStatus = NoTxStatus

\* C11: for every latency threshold from 0.0 to 1.0 inclusive and every
\* number M >= 1 of event sources that all reported a VALID commit (after
\* accepted endorsements and a SUCCESS answer of the orderer), the index
\* ceil(M*threshold - 1) lies in 0 .. M-1: submit returns the success verdict
\* with a committed-at time that is one of the per-source commit times.
C11_ThresholdIndexInRange ==
    ( /\ pc = "done"
      /\ Confirming
      /\ regs # << >>
      /\ \A i \in DOMAIN regs : Annotated(<<"commit_success", regs[i].peer>>) )
    => /\ ThresholdIndex(Len(regs), configLatencyThreshold) \in 0 .. Len(regs) - 1
       /\ invokeStatus.status = "success"
       /\ \E i \in DOMAIN regs : CommitTimeOf(i) = invokeStatus.time_final

\* ------------------------------------------- properties of the network
\* the last call was _assembleRandomTargetPeers
Assembled == called.op = "_assembleRandomTargetPeers"

\* the channel, the contract and the load index of that call
AssembledChannel == called.args[1][1]
AssembledChaincode == [id |-> called.args[1][2], version |-> called.args[1][3]]
AssembledIndex == called.args[2]

\* the target-peer set of the contract of that call
AssembledTargets ==
    Elements(getTargetPeersOfChaincodeOfChannel(AssembledChaincode,
                                                AssembledChannel)[1])

\* the organizations that own a target peer of the contract of that call
OwningOrganizations ==
    {getOrganizationOfPeer(p)[1] : p \in AssembledTargets}

\* the eligible list of an organization for the contract of that call: the
\* peers the organization lists that are in the channel and in the
\* contract's target-peer set, in the organization's order
Eligible(org) ==
    SelectSeq(Distinct(network.organizations[org].peers),
              LAMBDA p : /\ p \in DOMAIN network.channels[AssembledChannel].peers
                         /\ p \in AssembledTargets)

\* C12: for every channel, contract and load index i >= 0, automatic target
\* selection returns exactly one peer for each organization that owns a
\* target peer of the contract, namely element i mod len of the
\* organization's eligible list, and every returned peer is in the
\* contract's target-peer set and in the channel.
C12_OnePeerPerOwningOrganization ==
    Assembled =>
        /\ Len(called.value) = Cardinality(OwningOrganizations)
        /\ \A org \in OwningOrganizations :
              /\ Len(Eligible(org)) > 0
              /\ \E j \in DOMAIN called.value :
                    called.value[j]
                      = Eligible(org)[(AssembledIndex % Len(Eligible(org))) + 1]
        /\ \A j \in DOMAIN called.value :
              /\ called.value[j] \in AssembledTargets
              /\ called.value[j] \in DOMAIN network.channels[AssembledChannel].peers

\* C13: the peer selected for an organization with load index i is the peer
\* selected with load index i + k*n, for every k >= 0, where n is the number
\* of the organization's eligible peers for the contract.
C13_RoundRobinPeriodicity ==
    Assembled =>
        LET key == called.args[1]
            chaincodeOrgs == randomTargetPeerCache[1][key]
        IN  \A j \in DOMAIN chaincodeOrgs, k \in 0 .. MaxPeriods :
                assembleRandomTargetPeers(
                    key, AssembledIndex + k * Len(chaincodeOrgs[j].peers))[j]
                  = called.value[j]

\* C13 witness: with load index 3 the second of the two eligible peers of
\* an organization was selected
C13_Witness ==
    /\ Assembled
    /\ AssembledIndex = 3
    /\ \E j \in DOMAIN called.value :
          LET peers == randomTargetPeerCache[1][called.args[1]][j].peers
          IN  /\ Len(peers) = 2
              /\ called.value[j] = peers[2]

\* whether each endpoint of the configuration is secured (grpcs, https):
\* the orderers, the peers, the event endpoints of the peers that give one,
\* the certificate authorities
SecuredEndpoints ==
    {network.orderers[o].url = "grpcs" : o \in DOMAIN network.orderers}
    \cup {network.peers[p].url = "grpcs" : p \in DOMAIN network.peers}
    \cup {network.peers[p].eventUrl[1] = "grpcs" :
            p \in {x \in DOMAIN network.peers :
                      network.peers[x].eventUrl # Undefined}}
    \cup {network.certificateAuthorities[1][ca].url = "https" :
            ca \in IF network.certificateAuthorities = Undefined THEN {}
                   ELSE DOMAIN network.certificateAuthorities[1]}

\* C14: the constructor accepts no mixed-transport network: in every
\* accepted configuration either every orderer, peer, peer event endpoint
\* and certificate authority is secured, or none is.
C14_NoMixedTransport ==
    loaded = "accepted" => Cardinality(SecuredEndpoints) <= 1

\* C15: the constructor rejects every configuration in which some channel
\* has an empty contract list, an empty peer list or an empty orderer list:
\* every channel of an accepted configuration has at least one contract, one
\* peer and one orderer.
C15_ChannelsNotEmpty ==
    loaded = "accepted" =>
        \A channel \in DOMAIN network.channels :
            /\ network.channels[channel].chaincodes # << >>
            /\ DOMAIN network.channels[channel].peers # {}
            /\ network.channels[channel].orderers # << >>

\* the names of the configured certificate authorities
ConfiguredCas ==
    IF network.certificateAuthorities = Undefined THEN {}
    ELSE DOMAIN network.certificateAuthorities[1]

\* C16: the constructor rejects every configuration with a named reference
\* that resolves to nothing: in every accepted configuration each peer and
\* orderer of a channel, each peer and certificate authority of an
\* organization, each target peer of a contract and the organization of each
\* client is defined in the configuration.
C16_ReferencesResolve ==
    loaded = "accepted" =>
        /\ \A channel \in DOMAIN network.channels :
              LET channelObj == network.channels[channel]
              IN  /\ DOMAIN channelObj.peers \subseteq DOMAIN network.peers
                  /\ Elements(channelObj.orderers) \subseteq DOMAIN network.orderers
                  /\ \A cc \in Elements(channelObj.chaincodes) :
                        cc.targetPeers # Undefined
                        => Elements(cc.targetPeers[1]) \subseteq DOMAIN network.peers
        /\ \A org \in DOMAIN network.organizations :
              LET orgObj == network.organizations[org]
              IN  /\ Elements(orgObj.peers) \subseteq DOMAIN network.peers
                  /\ orgObj.certificateAuthorities # Undefined
                     => Elements(orgObj.certificateAuthorities[1]) \subseteq ConfiguredCas
        /\ \A client \in DOMAIN network.clients :
              network.clients[client].organization \in DOMAIN network.organizations

\* the places of the contract descriptors of the loaded configuration: a
\* channel and an index in the channel's contract list
ConfiguredContracts ==
    UNION {{<< channel, i >> : i \in DOMAIN network.channels[channel].chaincodes} :
           channel \in DOMAIN network.channels}

\* the descriptor at a place
Descriptor(place) == network.channels[place[1]].chaincodes[place[2]]

\* the contract ID a descriptor resolves to: the explicit one, else the name
ContractIdOf(cc) == IF cc.contractID # Undefined THEN cc.contractID[1] ELSE cc.id

\* C17: the constructor rejects a configuration in which two contract
\* descriptors, in the same channel or in different ones, resolve to the
\* same contract ID; after it accepted one, every contract ID maps to the
\* (channel, name, version) of exactly one descriptor and every configured
\* contract is found through its contract ID.
C17_ContractIdsUnique ==
    loaded = "accepted" =>
        /\ \A a, b \in ConfiguredContracts :
              ContractIdOf(Descriptor(a)) = ContractIdOf(Descriptor(b)) => a = b
        /\ \A a \in ConfiguredContracts :
              LET details == getContractDetails(ContractIdOf(Descriptor(a)))
              IN  /\ details # Undefined
                  /\ details.channel = a[1]
                  /\ details.id = Descriptor(a).id
                  /\ details.version = Descriptor(a).version
        /\ DOMAIN contractMapping
              = {ContractIdOf(Descriptor(a)) : a \in ConfiguredContracts}

\* C17 witness: an accepted configuration with two channels, three contracts
\* in all, one of them found through its explicit contract ID
C17_Witness ==
    /\ loaded = "accepted"
    /\ DOMAIN network.channels = {"ch1", "ch2"}
    /\ Cardinality(ConfiguredContracts) = 3
    /\ \E a \in ConfiguredContracts :
          /\ Descriptor(a).contractID # Undefined
          /\ Descriptor(a).contractID[1] # Descriptor(a).id
          /\ getContractDetails(Descriptor(a).contractID[1]).id = Descriptor(a).id

\* C18: after load accepted a configuration, getOrganizationOfPeer and
\* getChannelsOfPeer for a configured peer, getOrganizationsOfChannel for a
\* configured channel, and _prepareCaches over every contract of every
\* channel never throw.
C18_AccessorsNeverThrow ==
    (/\ loaded = "accepted"
     /\ called.op \in {"getOrganizationOfPeer", "getChannelsOfPeer",
                        "getOrganizationsOfChannel", "_prepareCaches"})
    => ~called.threw

\* the endorsing peers of a channel: the peers of its peer section whose
\* endorsingPeer flag is true or absent
EndorsingPeersOfChannel(channelObj) ==
    {key \in DOMAIN channelObj.peers : EndorsingPeer(channelObj.peers[key])}

\* the contracts of a channel that give no target-peer list
WithoutTargetPeers(channel) ==
    {cc \in Elements(network.channels[channel].chaincodes) :
        ~checkProperty(cc.targetPeers)}

\* C19: the target-peer set of a contract without an explicit target-peer
\* list is exactly the set of the channel's endorsing peers, and automatic
\* target selection for such a contract never returns a channel peer
\* declared with endorsingPeer false.
C19_DefaultTargetsAreEndorsingPeers ==
    loaded = "accepted" =>
        /\ \A channel \in DOMAIN network.channels :
              \A cc \in WithoutTargetPeers(channel) :
                 Elements(getTargetPeersOfChaincodeOfChannel(cc, channel)[1])
                   = EndorsingPeersOfChannel(network.channels[channel])
        /\ (/\ Assembled
            /\ \E cc \in WithoutTargetPeers(AssembledChannel) :
                  cc.id = AssembledChaincode.id
                  /\ cc.version = AssembledChaincode.version)
           => \A i \in DOMAIN called.value :
                 LET peers == network.channels[AssembledChannel].peers
                 IN  called.value[i] \in DOMAIN peers
                     => peers[called.value[i]].endorsingPeer # "false"

\* the solidity contracts of a channel
SolidityContracts(channel) ==
    {cc \in Elements(network.channels[channel].chaincodes) :
        cc.language = "solidity"}

\* the union of the target-peer sets of the solidity contracts of a channel
SolidityTargets(channel) ==
    UNION {Elements(getTargetPeersOfChaincodeOfChannel(cc, channel)[1]) :
           cc \in SolidityContracts(channel)}

\* the places of a channel's contract list that hold a proxy contract
ProxyPlaces(channel) ==
    {i \in DOMAIN network.channels[channel].chaincodes :
        network.channels[channel].chaincodes[i].contractID
            = << EvmContractID(channel) >>}

\* the target-peer set of the proxy contract of a channel
ProxyTargets(channel) ==
    Elements(getTargetPeersOfChaincodeOfChannel(
                 [id |-> "evmcc", version |-> "v0"], channel)[1])

\* one proxy contract is in the channel and the lookups find it
OneProxy(channel) ==
    /\ Cardinality(ProxyPlaces(channel)) = 1
    /\ getEvmProxyChaincodeOfChannel(channel) = EvmContractID(channel)
    /\ getContractDetails(EvmContractID(channel)) # Undefined
    /\ getContractDetails(EvmContractID(channel)).channel = channel
    /\ getContractDetails(EvmContractID(channel)).id = "evmcc"

\* no proxy contract is in the channel
NoProxy(channel) ==
    /\ ProxyPlaces(channel) = {}
    /\ getEvmProxyChaincodeOfChannel(channel) = Undefined
    /\ getContractDetails(EvmContractID(channel)) = Undefined

\* C20 as stated: a channel with a solidity contract gets exactly one proxy
\* contract, getEvmProxyChaincodeOfChannel returns its contract ID and its
\* target-peer set is the union of the target-peer sets of the channel's
\* solidity contracts; a channel without solidity contracts gets no proxy
\* and the lookup returns nothing.
C20_ProxyTargetsAreUnion ==
    loaded = "accepted" =>
        \A channel \in DOMAIN network.channels :
            IF SolidityContracts(channel) # {}
            THEN OneProxy(channel)
                 /\ ProxyTargets(channel) = SolidityTargets(channel)
            ELSE NoProxy(channel)

\* C20 amended: as above, but the target-peer set of the proxy is the list
\* evmProxyChaincode.targetPeers of the channel when the channel gives one,
\* and the union of the solidity contracts' target-peer sets only otherwise.
C20_ProxyTargetsExplicitOrUnion ==
    loaded = "accepted" =>
        \A channel \in DOMAIN network.channels :
            IF SolidityContracts(channel) # {}
            THEN OneProxy(channel)
                 /\ ProxyTargets(channel) =
                       IF checkProperty(network.channels[channel].evmProxyChaincode)
                       THEN Elements(network.channels[channel].evmProxyChaincode[1])
                       ELSE SolidityTargets(channel)
            ELSE NoProxy(channel)

\* C20 witness: an accepted configuration whose first channel has a solidity
\* contract and an explicit proxy target list that differs from the union,
\* and whose second channel has no solidity contract
C20_Witness ==
    /\ loaded = "accepted"
    /\ DOMAIN network.channels = {"ch1", "ch2"}
    /\ SolidityContracts("ch1") # {}
    /\ checkProperty(network.channels["ch1"].evmProxyChaincode)
    /\ ProxyTargets("ch1") = {"p1"}
    /\ SolidityTargets("ch1") # {"p1"}
    /\ SolidityContracts("ch2") = {}
    /\ NoProxy("ch2")

\* ------------------------------------------------ properties of a query
\* the greatest element of a non-empty set of numbers
Greatest(S) == CHOOSE x \in S : \A y \in S : y <= x

\* the targets of the call that did not return an error
Answered(results) == {i \in DOMAIN results : results[i] # "Error"}

\* C21: when all targets of a query answer in time, the recorded result is
\* the response of the last target that did not return an error, every
\* target gets its own annotation (endorsement_result_<peer> with its
\* response, or endorsement_result_error_<peer>), the verdict is success
\* exactly when no target returned an error, and no commit listener is
\* registered and no orderer contacted.
C21_QueryKeepsLastResult ==
    [][\A results \in [DOMAIN invokeSettings.targetPeers -> QueryResults] :
          QueryAnswer(results) =>
              LET targetPeers == invokeSettings.targetPeers
                  status == invokeStatus'
              IN  /\ status.result =
                        IF Answered(results) = {} THEN "null"
                        ELSE results[Greatest(Answered(results))]
                  /\ \A i \in DOMAIN results :
                        LET ok == <<"endorsement_result", targetPeers[i]>>
                            err == <<"endorsement_result_error", targetPeers[i]>>
                        IN  IF results[i] = "Error"
                            THEN err \in DOMAIN status.custom
                                 /\ ok \notin DOMAIN status.custom
                            ELSE ok \in DOMAIN status.custom
                                 /\ status.custom[ok] = results[i]
                                 /\ err \notin DOMAIN status.custom
                  /\ status.status = IF Answered(results) = DOMAIN results
                                     THEN "success" ELSE "failed"
                  /\ pc' = "done"
                  /\ regs' = << >>
                  /\ bcast' = NoCall
    ]_vars

\* C21 witness: a query of two targets returned; the first target answered
\* v1 and the second an error, and the recorded result is v1
C21_Witness ==
    /\ kind = "query"
    /\ pc = "done"
    /\ qry.state = "answered"
    /\ Len(invokeSettings.targetPeers) = 2
    /\ Annotated(<<"endorsement_result", 1>>)
    /\ invokeStatus.custom[<<"endorsement_result", 1>>] = "v1"
    /\ Annotated(<<"endorsement_result_error", 2>>)
    /\ invokeStatus.result = "v1"
    /\ invokeStatus.status = "failed"

\* the timer of the query fired before the targets answered
QueryTimedOut == qry.state \in {"timedOut", "failed", "lateAnswer"}

\* C22: a query whose targets do not answer before the remaining timeout
\* elapses returns, with the fail verdict; an answer that arrives after the
\* timeout does not change the returned TxStatus.
C22_QueryTimeoutFails ==
    /\ (kind = "query" /\ pc = "query") ~> (pc = "done")
    /\ [](QueryTimedOut =>
            /\ pc = "done"
            /\ invokeStatus.status = "failed"
            /\ returnTime <= startTime + timeout)
    /\ [][QueryTimedOut => invokeStatus' = invokeStatus]_vars

\* C22 witness: the query returned on its timer, and the answer came later
C22_Witness ==
    /\ kind = "query"
    /\ qry.state = "lateAnswer"
    /\ pc = "done"
    /\ invokeStatus.status = "failed"
    /\ Annotated(<<"unexpected_error", 0>>)
    /\ invokeStatus.custom[<<"unexpected_error", 0>>] = "TIMEOUT"
    /\ returnTime = startTime + timeout

\* ----------------------------------------- properties of the entry points
\* an entry point handed its settings on
HandedOn ==
    /\ called.op \in {"invokeSmartContract", "querySmartContract"}
    /\ ~called.threw

\* the timeout argument of that call
TimeoutArgument == called.args[3]

\* C23: the timeout budget in milliseconds handed to each submit/query call
\* is s*1000 when the caller supplies a timeout of s seconds, and the
\* configured default timeout, a millisecond value, when the caller
\* supplies none.
C23_TimeoutBudgetInMs ==
    HandedOn =>
        LET budget == IF TimeoutArgument = Undefined
                      THEN configDefaultTimeout
                      ELSE TimeoutArgument[1] * 1000
        IN  /\ timeout = budget
            /\ \A i \in DOMAIN called.value : called.value[i] = budget

\* C25: right after releaseContext returned, the list of event sources is
\* empty and no event hub that was connected when it was called is still
\* connected, however many event sources there were and whatever was called
\* before
C25_ReleaseDisconnectsAndEmpties ==
    called.op = "releaseContext"
    => /\ eventSources = << >>
       /\ \A h \in called.args[1] : eventHubs[h] = "disconnected"

\* a release of the event sources of two contexts, requested one after the
\* other, of which two hubs at least were connected
C25_Witness ==
    /\ called.op = "releaseContext"
    /\ Cardinality(called.args[1]) >= 2
    /\ called.args[2] > Cardinality(DOMAIN eventHubs)
    /\ eventSources = << >>
    /\ \A h \in called.args[1] : eventHubs[h] = "disconnected"

\* the requests of a kind sent by the n-th run
RequestsOf(n, types) ==
    SelectSeq(installRuns[n].requests, LAMBDA request : request.type \in types)

\* C24: a run of installSmartContract that follows a run that completed
\* without error sends no install request and no instantiate proposal
C24_SecondRunSendsNothing ==
    \A n \in DOMAIN installRuns :
        (n > 1 /\ ~installRuns[n - 1].threw)
        => RequestsOf(n, {"install", "instantiate"}) = << >>

\* a first run installed on the peers of two organizations and instantiated
\* in two channels, the proxy contract included, and completed; the second
\* run deployed the Solidity contract again and sent nothing else
C24_Witness ==
    /\ Len(installRuns) >= 2
    /\ ~installRuns[1].threw
    /\ Len(RequestsOf(1, {"install"})) >= 2
    /\ Len(RequestsOf(1, {"instantiate"})) >= 2
    /\ RequestsOf(2, {"install", "instantiate"}) = << >>
    /\ ~installRuns[2].threw
    /\ Len(RequestsOf(2, {"deploy"})) >= 1

\* C26: in every sequence of createLogger calls the first call creates the
\* root logger and configures it, no later call creates or configures one,
\* and every call returns a child logger of the configured root logger
\* with the module name it was given
C26_RootLoggerConfiguredOnce ==
    \A n \in DOMAIN loggerCalls :
        /\ loggerCalls[n].created = (n = 1)
        /\ loggerCalls[n].configureCalls = (IF n = 1 THEN 1 ELSE 0)
        /\ loggerCalls[n].result =
              Returned(createChildLogger([configured |-> TRUE],
                                         loggerCalls[n].moduleName))

\* the same for the sequences in which configure() did not throw
C26_WhenConfigureReturns ==
    (loggerCalls # << >> /\ loggerCalls[1].result # Thrown)
    => C26_RootLoggerConfiguredOnce

\* the outcomes recorded in the TxStatus for the registration on source i
OutcomesOf(st, i) ==
    {key \in {"commit_success", "commit_error", "event_hub_error", "commit_timeout"} :
        << key, regs[i].peer >> \in DOMAIN st.custom}

\* C27: a registration that has not resolved is registered, has its timer
\* and no outcome; one that has resolved is unregistered, has no timer and
\* exactly one outcome; and once resolved, neither the registration nor its
\* outcome changes again, whatever becomes ready afterwards
C27_RegistrationResolvesOnce ==
    /\ [](\A i \in DOMAIN regs :
             IF regs[i].resolved
             THEN /\ ~regs[i].registered
                  /\ regs[i].handle = NoHandle
                  /\ Cardinality(OutcomesOf(invokeStatus, i)) = 1
             ELSE /\ regs[i].registered
                  /\ regs[i].handle # NoHandle
                  /\ OutcomesOf(invokeStatus, i) = {})
    /\ [][\A i \in DOMAIN regs :
             regs[i].resolved
             => /\ i \in DOMAIN regs'
                /\ regs'[i] = regs[i]
                /\ \A key \in OutcomesOf(invokeStatus, i) :
                      /\ << key, regs[i].peer >> \in DOMAIN invokeStatus'.custom
                      /\ invokeStatus'.custom[<< key, regs[i].peer >>]
                           = invokeStatus.custom[<< key, regs[i].peer >>]]_vars

\* two registrations made with the same deadline: one resolved by a valid
\* commit event, the other by its timer; the deadline has passed and the
\* first one carries no timeout
C27_Witness ==
    \E i, j \in DOMAIN regs :
        /\ regs[i].resolved /\ regs[j].resolved
        /\ OutcomesOf(invokeStatus, i) = {"commit_success"}
        /\ OutcomesOf(invokeStatus, j) = {"commit_timeout"}
        /\ ~regs[i].registered /\ regs[i].handle = NoHandle

\* -------------------------------------------------------------- rounds
\* a round: contexts are requested and released, and a transaction is
\* submitted up to the registration of its commit listeners
RoundInit ==
    /\ network \in ContextNetworks
    /\ NetLoaded
    /\ CallIdle

RoundNext ==
    \/ GetContext
    \/ ReleaseContext
    \/ SubmitStart
    \/ ProposalThrows
    \/ \E resps \in [DOMAIN invokeSettings.targetPeers -> ProposalResponse] :
          ProposalResponds(resps)
    \/ Tick

RoundSpec == RoundInit /\ [][RoundNext]_vars

\* the registrations made on the event source at position i of the list
RegistrationsOn(rs, i) == {k \in DOMAIN rs : rs[k].peer = i}

PhaseOrder ==
    { << "init", "proposal" >>, << "init", "thrown" >>,
      << "proposal", "broadcast" >>, << "proposal", "done" >>,
      << "broadcast", "events" >>, << "broadcast", "done" >>,
      << "events", "done" >> }

\* the wait for the answer of the orderer is over
BroadcastWaitEnded(b) == b.state \notin {"none", "sent", "sendRejected"}

\* the phases follow one another in order, and the broadcast is sent in the
\* step in which the responses of all targets arrived and passed the checks
OrderUpToBroadcast ==
    /\ pc' # pc => << pc, pc' >> \in PhaseOrder
    /\ (bcast.state = "none" /\ bcast'.state # "none")
       => /\ pc = "proposal" /\ pc' = "broadcast"
          /\ bcast'.state = "sent"
          /\ DOMAIN proposalResponseObject' = DOMAIN invokeSettings.targetPeers
          /\ Accepted(proposalResponseObject')
          /\ ~ReadWriteSetsMismatch(proposalResponseObject')

\* the step decides the verdict of a call that broadcast
VerdictDecided == pc # "done" /\ pc' = "done" /\ bcast'.state # "none"

C30_SuccessNeedsEverySource ==
    /\ (kind = "submit" /\ invokeStatus.status = "success")
       => /\ pc = "done"
          /\ Len(regs) >= 1
          /\ \A i \in DOMAIN regs :
                /\ regs[i].resolved
                /\ regs[i].result.successful
                /\ OutcomesOf(invokeStatus, i) = {"commit_success"}
    /\ ( /\ kind = "submit"
         /\ pc = "done"
         /\ \E i \in DOMAIN regs :
               OutcomesOf(invokeStatus, i) \cap {"commit_timeout", "event_hub_error"} # {} )
       => invokeStatus.status = "failed"

\* a call returned the fail verdict after one source delivered a VALID
\* commit event and the hub of the other one reported an error
C30_Witness ==
    /\ kind = "submit"
    /\ pc = "done"
    /\ bcast.state = "acked" /\ bcast.status = "SUCCESS"
    /\ invokeStatus.status = "failed"
    /\ \E i, j \in DOMAIN regs :
          /\ OutcomesOf(invokeStatus, i) = {"commit_success"}
          /\ OutcomesOf(invokeStatus, j) = {"event_hub_error"}

\* ------------------------------------------- properties of a round's calls
\* the orderer _getRandomTargetOrderer gives for a load index
OrdererAt(index) ==
    ElementAt(randomTargetOrdererCache(CallChannel),
              index % Len(randomTargetOrdererCache(CallChannel)))

\* C31: the orderer chosen for the n-th submit call of a round is the one
\* of load index n-1, the index its target peers were chosen with, whatever
\* calls started while it waited for its endorsements
C31_OrdererOfOwnIndex ==
    \A n \in DOMAIN batch :
        batch[n].targetOrderer # Undefined
        => /\ batch[n].targetPeers = assembleRandomTargetPeers(CallKey, n - 1)
           /\ batch[n].targetOrderer = << OrdererAt(n - 1) >>

\* the counter is the number of calls started since getContext, less one,
\* and the n-th call of the round that assembled target peers assembled
\* them with load index n-1
CounterCountsCalls ==
    /\ txIndex = Len(batch) - 1
    /\ \A n \in DOMAIN batch :
          batch[n].state # "thrown"
          => batch[n].targetPeers = assembleRandomTargetPeers(CallKey, n - 1)

\* only getContext lowers the counter, to -1, which every getContext does,
\* and a step that starts a call raises it by one
CounterSteps ==
    /\ (txIndex' < txIndex => (txIndex' = -1 /\ called'.op = "getContext"))
    /\ (Len(batch') > Len(batch) => txIndex' = txIndex + 1)
    /\ (batch' = << >> /\ batch # << >> => txIndex' = -1)

\* C32: getContext resets the call counter, the start of every submit and
\* of every query call raises it by one, and nothing else changes it: the
\* n-th call after getContext (n >= 1) selects its target peers with load
\* index n-1, also with several calls of the round in flight
C32_CallCounter ==
    /\ []CounterCountsCalls
    /\ [][CounterSteps]_vars

\* three calls of a round are in flight at once, a query among them, and
\* the second and the third were given different peers of OrgA
C32_Witness ==
    /\ Len(batch) = 3
    /\ \A n \in DOMAIN batch : batch[n].state \in {"proposal", "query"}
    /\ \E n \in DOMAIN batch : batch[n].kind = "query"
    /\ batch[2].targetPeers # batch[3].targetPeers
    /\ called.op = "getContext"

\* the event sources the adapter holds for a channel, as positions
HeldFor(channel) ==
    {i \in DOMAIN eventSources : channel \in Elements(eventSources[i].channel)}

\* C33: after any getContext and releaseContext calls the list submit uses
\* for the channel of the calls names exactly the event sources the adapter
\* holds for that channel, each of them once: none that releaseContext
\* dropped, and none twice after two getContext calls in a row
C33_CacheListsHeldSourcesOnce ==
    called.op \in {"getContext", "releaseContext"}
    => /\ Elements(channelEventSourcesCache) = HeldFor(CallChannel)
       /\ \A k, l \in DOMAIN channelEventSourcesCache :
             (k # l /\ {channelEventSourcesCache[k], channelEventSourcesCache[l]}
                          \subseteq DOMAIN eventSources)
             => eventSources[channelEventSourcesCache[k]]
                   # eventSources[channelEventSourcesCache[l]]

\* --------------------------------------- properties of the timeout wrappers
\* the annotation of the call under a key has the value
AnnotatedWith(key, value) ==
    key \in DOMAIN invokeStatus.custom /\ invokeStatus.custom[key] = value

\* C34: in the wrappers around the broadcast and around the query proposal
\* a network call that rejects ends the wait at that moment, and TIMEOUT is
\* recorded only when the network call had not settled when the timer fired
C34_RejectionEndsWait ==
    /\ bcast.state = "sendRejected" => pc # "broadcast"
    /\ qry.state = "sendRejected" => pc # "query"
    /\ AnnotatedWith(<<"broadcast_error", targetOrderer>>, "TIMEOUT")
       => bcast.state \in {"timedOut", "lateAck"}
    /\ (kind = "query" /\ AnnotatedWith(<<"unexpected_error", 0>>, "TIMEOUT"))
       => qry.state \in {"timedOut", "lateAnswer"}

\* ------------------------------------ properties of the remaining timeout
\* C35: for every start time, original timeout and threshold the remaining
\* timeout is the original less the elapsed time when that is at least the
\* threshold, and the threshold otherwise; with the threshold of the
\* adapter (configSmallestTimeout) it is never below 1000 ms, so never zero
\* or negative
C35_RemainingTimeoutFloored ==
    called.op = "getRemainingTimeout"
    => LET start == called.args[1]
           original == called.args[2]
           threshold == called.args[3]
           elapsed == called.args[4] - start
       IN  /\ ~called.threw
           /\ original - elapsed >= threshold => called.value = original - elapsed
           /\ original - elapsed < threshold => called.value = threshold
           /\ called.value >= threshold
           /\ threshold = configSmallestTimeout
              => (called.value >= 1000 /\ called.value > 0)

\* the budget was used up before the suspension point: the difference is
\* negative and the adapter's threshold is handed out
C35_Witness ==
    /\ called.op = "getRemainingTimeout"
    /\ called.args[3] = configSmallestTimeout
    /\ called.args[2] - (called.args[4] - called.args[1]) < 0
    /\ called.value = configSmallestTimeout

\* ------------------------------------ properties of the endorsement phase
\* the annotations of the endorsement phase that report a failing target
EndorsementErrorKeys ==
    {"proposal_response_error", "endorsement_verify_error", "endorsement_result_error"}

\* the answer of a target fails the checks of the endorsement phase
FailsEndorsement(value) ==
    \/ value.isError
    \/ configVerifyProposalResponse /\ ~verifyProposalResponse(value)
    \/ value.status # 200

\* the error annotations of the call that are keyed by the target
ErrorsKeyedBy(targetName) ==
    {key \in EndorsementErrorKeys : Annotated(<< key, targetName >>)}

\* C36: when the endorsements have arrived, every target that failed (an
\* Error object, a failed verification, a status other than 200) has one
\* error annotation under its own name in the TxStatus, every target that
\* answered successfully has its endorsement result there and no error
\* annotation, and the call with a failing target has returned as failed:
\* the checks go through all targets
C36_EveryFailingTargetAnnotated ==
    (kind = "submit" /\ proposalResponseObject # << >>)
    => LET targetPeers == invokeSettings.targetPeers
       IN  /\ \A i \in DOMAIN targetPeers :
                 IF FailsEndorsement(proposalResponseObject[i])
                 THEN /\ Cardinality(ErrorsKeyedBy(targetPeers[i])) = 1
                      /\ pc = "done"
                      /\ invokeStatus.status = "failed"
                 ELSE /\ ErrorsKeyedBy(targetPeers[i]) = {}
                      /\ Annotated(<< "endorsement_result", targetPeers[i] >>)

\* the first target answered with an Error object and the second with a
\* status other than 200: both are annotated in the returned TxStatus
C36_Witness ==
    /\ kind = "submit"
    /\ pc = "done"
    /\ Len(proposalResponseObject) = 2
    /\ proposalResponseObject[1].isError
    /\ ~proposalResponseObject[2].isError
    /\ proposalResponseObject[2].sigOk
    /\ proposalResponseObject[2].status # 200
    /\ Annotated(<< "proposal_response_error", invokeSettings.targetPeers[1] >>)
    /\ Annotated(<< "endorsement_result_error", invokeSettings.targetPeers[2] >>)
    /\ Annotated(<< "endorsement_result", invokeSettings.targetPeers[2] >>)

\* ------------------------------------------------------ properties of init
\* the positions of the requests of a type for a channel in a run
RequestsFor(run, type, channel) ==
    {q \in DOMAIN run.requests :
        run.requests[q].type = type /\ run.requests[q].channel = channel}

\* the peers of a channel that had not joined it when the run began
NeedToJoin(run, channel) ==
    {p \in DOMAIN network.channels[channel].peers : << p, channel >> \notin run.before}

\* C37: in every run of the bootstrap a join request names peers of one
\* organization, all of which answered the query without the channel, and
\* never goes out empty; the genesis block of a channel is fetched once at
\* most, not at all when no peer of the channel needs to join, and before
\* the first join request of the channel, whose organizations all use it
C37_JoinOnlyMissingPeersOneGenesis ==
    \A n \in DOMAIN initRuns :
        LET run == initRuns[n]
        IN  /\ \A q \in DOMAIN run.requests :
                  run.requests[q].type = "join"
                  => LET request == run.requests[q]
                     IN  /\ Len(request.targets) >= 1
                         /\ Elements(request.targets)
                               = NeedToJoin(run, request.channel)
                                 \cap Elements(getPeersOfOrganizationAndChannel(
                                                   request.org, request.channel))
                         /\ \E g \in RequestsFor(run, "genesis", request.channel) : g < q
            /\ \A channel \in DOMAIN network.channels :
                  /\ Cardinality(RequestsFor(run, "genesis", channel)) <= 1
                  /\ NeedToJoin(run, channel) = {}
                     => RequestsFor(run, "genesis", channel) = {}

\* a first run joined the peers of two organizations to a channel with one
\* genesis block, one peer answering with an error; the second run asked
\* that peer only
C37_Witness ==
    /\ Len(initRuns) = 2
    /\ Cardinality(RequestsFor(initRuns[1], "join", "ch1")) = 2
    /\ Cardinality(RequestsFor(initRuns[1], "genesis", "ch1")) = 1
    /\ initRuns[1].threw
    /\ initRuns[2].before # {}
    /\ Cardinality(RequestsFor(initRuns[2], "join", "ch1")) = 1
    /\ \E q \in RequestsFor(initRuns[2], "join", "ch1") :
          Len(initRuns[2].requests[q].targets) = 1
    /\ ~initRuns[2].threw

\* the join request at position q of a run failed: it was rejected as a
\* whole, or one of its peers answered with an error
JoinFailed(run, q) ==
    /\ run.requests[q].type = "join"
    /\ \/ run.requests[q].org \in run.env.rejected
       \/ Elements(run.requests[q].targets) \cap run.env.failing # {}

\* C38: a run of init in which the join request of an organization failed,
\* by an error of a peer or by the rejection of the request, has thrown,
\* and has not reported the peers of that request as joined
C38_FailedJoinFailsInit ==
    \A n \in DOMAIN initRuns :
        \A q \in DOMAIN initRuns[n].requests :
            JoinFailed(initRuns[n], q)
            => /\ initRuns[n].threw
               /\ \A p \in Elements(initRuns[n].requests[q].targets) :
                     << p, initRuns[n].requests[q].channel >>
                        \notin initRuns[n].reported

\* ------------------------------------------- properties of the installation
\* the last run of installSmartContract
LastInstallRun == installRuns[Len(installRuns)]

\* the install requests of a run for a chaincode of a channel
InstallRequestsFor(run, channel, id, version) ==
    {r \in DOMAIN run.requests :
        /\ run.requests[r].type = "install"
        /\ run.requests[r].channel = channel
        /\ run.requests[r].id = id
        /\ run.requests[r].version = version}

\* C39: when a run has sent an install request for a chaincode of a
\* channel, every target peer of the chaincode that is without it after the
\* run was named in an install request of the run, whatever happened to the
\* requests of the other organizations, and the run has thrown when some
\* peer it asked is without the chaincode
C39_EveryOrganizationAttempted ==
    installRuns # << >>
    => \A r \in DOMAIN LastInstallRun.requests :
          LastInstallRun.requests[r].type = "install"
          => LET q == LastInstallRun.requests[r]
                 asked == UNION {Elements(LastInstallRun.requests[k].targets) :
                                   k \in InstallRequestsFor(LastInstallRun,
                                             q.channel, q.id, q.version)}
                 targetPeers == getTargetPeersOfChaincodeOfChannel(
                                    [id |-> q.id, version |-> q.version], q.channel)[1]
                 without == {p \in Elements(targetPeers) :
                                << p, q.id, q.version >> \notin installed}
             IN  /\ without \subseteq asked
                 /\ without # {} => LastInstallRun.threw

\* ------------------------------------- properties of the state manager
\* the successful SetStorage calls for the key before call n
WritesBefore(compKey, n) ==
    {w \in 1 .. n - 1 :
        /\ storageCalls[w].op = "SetStorage"
        /\ storageCalls[w].ok
        /\ storageCalls[w].compKey = compKey}

\* C40: within an invocation a GetStorage that returns a word after
\* successful SetStorage calls for its address and key returns the word the
\* last of them set, Zero256 when that call deleted the key
C40_GetStorageReturnsLastWrite ==
    \A n \in DOMAIN storageCalls :
        (storageCalls[n].op = "GetStorage"
         /\ storageCalls[n].ok
         /\ WritesBefore(storageCalls[n].compKey, n) # {})
        => LET writes == WritesBefore(storageCalls[n].compKey, n)
               last == CHOOSE w \in writes : \A v \in writes : v <= w
           IN  storageCalls[n].value = storageCalls[last].value

====
